---- MODULE Spec2Model ----
(***************************************************************************)
(* A model of the career-guidance pipeline's core: the two TTL caches      *)
(* (tools/cache_db.py, tools/cache_tools.py), cache-key construction, the  *)
(* sample-size confidence schedule and the gap evaluator with its          *)
(* fallbacks.                                                              *)
(*                                                                         *)
(* Conventions.                                                            *)
(*   - A Python str is a sequence of one-character strings.                *)
(*   - A Python float with two decimals is the integer of its hundredths   *)
(*     (0.95 is 95).                                                       *)
(*   - A Python dict is a record; a missing key is a field that is not in  *)
(*     the record's DOMAIN.                                                *)
(*   - Time is in seconds, as datetime differences are compared against    *)
(*     timedelta(seconds=ttl_seconds).                                     *)
(* Each component has its own specification (SpecConf, SpecKey, ...); the  *)
(* variables of the other components stay at their initial values.         *)
(***************************************************************************)
EXTENDS Integers, Sequences, FiniteSets, TLC

VARIABLES
    \* tools/cache_db.py, tools/cache_tools.py
    now,                \* datetime.now(), seconds since the start
    ticks,              \* number of clock advances so far (bounds the run)
    db,                 \* the rows of table cache in .cache/cache.db
    file,               \* the content of .cache/skills_cache.json
    lastSet,            \* history: per key, the last set that returned
    ret,                \* the last operation, when it ran and what it returned
    \* two concurrent writers of a cache
    wpc,                \* each writer's position in its set
    wreq,               \* each writer's request
    wbuf,               \* each writer's local copy of the cache file (variable cache)
    \* cache-key construction
    query1, query2,     \* two queries
    keys,               \* the keys the stages compute for them
    \* BaseAgent._calculate_confidence
    num_jobs,           \* the argument
    confidence,         \* the returned confidence, in hundredths
    \* the gap evaluator
    resume_skills,      \* payload["resume_skills"]
    short_term_skills,  \* payload["short_term_skills"]
    long_term_forecast, \* payload["long_term_forecast"]
    evaluation,         \* what rules_evaluator returned
    llm,                \* what the model call does in this run
    run_result,         \* what EvaluatorRecommenderAgent.run returned
    \* occupation lookup
    occ_query,          \* the title looked up
    occ_api,            \* what the CareerOneStop request does in this run
    occ_best,           \* what select_best_match returned
    occ_local,          \* what fuzzy_match_occupation returned
    occ_mapping,        \* what search_occupation returned
    \* job projections and the forecast agent
    bls_soc,            \* the SOC code asked for
    bls_title,          \* the job title passed along
    bls_api,            \* what the BLS request does in this run
    bls_result,         \* what fetch_job_projections returned
    fc_store,           \* the cache file, as to the key forecast_<soc_code>
    fc_runs,            \* number of runs of the forecast agent so far
    fc_result,          \* what LongTermForecastAgent.run returned, or that it raised
    \* the resume stage
    resume_file,        \* the file at file_path
    resume_answer,      \* what the model call does in this run
    resume_result,      \* what ResumeExtractorAgent.run returned
    \* the learning resources
    yt_now,             \* what datetime.now() reads
    yt_resources,       \* the candidates handed to filter_resources
    yt_filtered,        \* what filter_resources returned
    yt_key,             \* whether YOUTUBE_API_KEY is configured
    yt_level,           \* user_level
    yt_api,             \* what each searched channel answers
    yt_skills,          \* missing_skills
    yt_found,           \* what search_youtube_resources returned
    yt_store,           \* the cache entries of the run's cache keys
    yt_runs,            \* the calls of YouTubeResourceAgent.run so far
    yt_results,         \* what YouTubeResourceAgent.run returned
    \* the short-term skills stage
    st_query,           \* query
    st_jobs,            \* how many job descriptions fetch_job_postings returns
    st_answer,          \* what the skills model does
    st_store,           \* the cache entry of the run's role
    st_runs,            \* the calls of BaseAgent.run so far
    st_result,          \* what BaseAgent.run returned, or that it raised
    \* the role mapper
    rm_store,           \* the cache entry of the run's cache key
    rm_runs,            \* the calls of RoleMapperAgent.run so far
    rm_result,          \* what RoleMapperAgent.run returned
    \* job postings
    pg_source,          \* the answers of the pages of the source
    pg_max,             \* max_results
    pg_pc,              \* where fetch_job_postings is
    pg_page,            \* page
    pg_results,         \* results
    pg_requests,        \* the GETs made so far
    pg_returned         \* what fetch_job_postings returned

cacheVars == <<now, ticks, db, file, lastSet, ret>>
concVars  == <<wpc, wreq, wbuf>>
keyVars   == <<query1, query2, keys>>
confVars  == <<num_jobs, confidence>>
inputVars == <<resume_skills, short_term_skills, long_term_forecast>>
evalVars  == <<evaluation>>
agentVars == <<llm, run_result>>
occVars   == <<occ_query, occ_api, occ_best, occ_local, occ_mapping>>
blsVars   == <<bls_soc, bls_title, bls_api, bls_result, fc_store, fc_runs, fc_result>>
resumeVars == <<resume_file, resume_answer, resume_result>>
filterVars == <<yt_now, yt_resources, yt_filtered>>
searchVars == <<yt_key, yt_level, yt_api, yt_skills, yt_found, yt_store, yt_runs, yt_results>>
skillsVars == <<st_query, st_jobs, st_answer, st_store, st_runs, st_result>>
mapperVars == <<rm_store, rm_runs, rm_result>>
postingVars == <<pg_source, pg_max, pg_pc, pg_page, pg_results, pg_requests, pg_returned>>
\* The variables of the stages modelled after the evaluator.
stageVars == <<occVars, blsVars, resumeVars, filterVars, searchVars, skillsVars, mapperVars, postingVars>>
vars == <<cacheVars, concVars, keyVars, confVars, inputVars, evalVars, agentVars,
          stageVars>>

\* A value no operation produces: the variable has not been written yet.
None == [none |-> TRUE]

(***************************************************************************)
(* Python str operations, on sequences of characters.                      *)
(***************************************************************************)
UpperL == <<"A","B","C","D","E","F","G","H","I","J","K","L","M",
            "N","O","P","Q","R","S","T","U","V","W","X","Y","Z">>
LowerL == <<"a","b","c","d","e","f","g","h","i","j","k","l","m",
            "n","o","p","q","r","s","t","u","v","w","x","y","z">>

IsUpper(c) == \E i \in 1..26 : UpperL[i] = c
IsLower(c) == \E i \in 1..26 : LowerL[i] = c
IsAlpha(c) == IsUpper(c) \/ IsLower(c)
IsSpace(c) == c = " "

LowerChar(c) == IF IsUpper(c) THEN LowerL[CHOOSE i \in 1..26 : UpperL[i] = c] ELSE c
UpperChar(c) == IF IsLower(c) THEN UpperL[CHOOSE i \in 1..26 : LowerL[i] = c] ELSE c

\* str.lower()
Lower(s) == [i \in 1..Len(s) |-> LowerChar(s[i])]
\* str.upper()
Upper(s) == [i \in 1..Len(s) |-> UpperChar(s[i])]

\* str.title(): a letter is upper-cased when it starts the string or follows a
\* character that is not a letter, and lower-cased otherwise.
Title(s) ==
    [i \in 1..Len(s) |->
        IF i = 1 \/ ~IsAlpha(s[i - 1]) THEN UpperChar(s[i]) ELSE LowerChar(s[i])]

\* str.strip(): leading and trailing whitespace removed.
Strip(s) ==
    LET inner == {i \in 1..Len(s) : ~IsSpace(s[i])}
    IN  IF inner = {} THEN <<>>
        ELSE LET lo == CHOOSE i \in inner : \A j \in inner : i <= j
                 hi == CHOOSE i \in inner : \A j \in inner : j <= i
             IN  SubSeq(s, lo, hi)

\* str.replace(' ', '_')
ReplaceSpace(s) == [i \in 1..Len(s) |-> IF s[i] = " " THEN "_" ELSE s[i]]

\* s.startswith(p)
StartsWith(s, p) == Len(p) <= Len(s) /\ SubSeq(s, 1, Len(p)) = p

\* The positions at which p occurs in s.
Occurrences(s, p) ==
    {i \in 1..(Len(s) - Len(p) + 1) : SubSeq(s, i, i + Len(p) - 1) = p}

\* p in s
Contains(s, p) == Occurrences(s, p) # {}

(***************************************************************************)
(* BaseAgent._calculate_confidence (agents/base.py); the float returned is  *)
(* the field value, in hundredths.                                         *)
(***************************************************************************)
calculate_confidence_off_by_one(n) ==
    [value |-> IF n > 100 THEN 95
               ELSE IF n > 50 THEN 85
               ELSE IF n > 25 THEN 70
               ELSE 50]

_calculate_confidence(n) ==
    [value |-> IF n >= 100 THEN 95
               ELSE IF n >= 50 THEN 85
               ELSE IF n >= 25 THEN 70
               ELSE 50]

\* The largest sample size tried, and how far below zero the argument goes.
MaxJobs == 120
MinJobs == 3

ConfInit ==
    /\ num_jobs \in (0 - MinJobs)..MaxJobs
    /\ confidence = None

\* One call of _calculate_confidence(num_jobs).
CalculateConfidence ==
    /\ confidence = None
    /\ confidence' = _calculate_confidence(num_jobs)
    /\ UNCHANGED num_jobs


(***************************************************************************)
(* Cache-key construction by the stages.                                   *)
(***************************************************************************)
ForWord == <<" ", "f", "o", "r", " ">>

\* str.split(" for ")[1]: the text between the first occurrence of the
\* separator and the next one that does not overlap it (or the end).
SecondPart(s) ==
    LET occ   == Occurrences(s, ForWord)
        first == CHOOSE i \in occ : \A j \in occ : i <= j
        start == first + Len(ForWord)
        later == {j \in occ : j >= start}
        stop  == IF later = {} THEN Len(s) + 1
                 ELSE CHOOSE j \in later : \A k \in later : j <= k
    IN  SubSeq(s, start, stop - 1)

\* BaseAgent._extract_role_from_query: the role is the cache key of BaseAgent.run.
_extract_role_from_query(query) ==
    IF Contains(Lower(query), ForWord)
    THEN Title(Strip(SecondPart(Lower(query))))
    ELSE Title(Strip(query))

\* RoleMapperAgent.run: f"role_map_{job_title.lower().replace(' ', '_')}"
role_map_cache_key(job_title) ==
    <<"r", "o", "l", "e", "_", "m", "a", "p", "_">> \o ReplaceSpace(Lower(job_title))

\* YouTubeResourceAgent.run: f"youtube_{skill}_{user_level}"
youtube_cache_key(skill, user_level) ==
    <<"y", "o", "u", "t", "u", "b", "e", "_">> \o skill \o <<"_">> \o user_level

Junior == <<"J", "u", "n", "i", "o", "r">>

\* The queries tried: every concatenation of at most MaxPieces of these pieces.
MaxPieces == 3
Pieces == {<<"d">>, <<"D">>, <<"s">>, <<" ">>, ForWord}

RECURSIVE Concats(_)
Concats(n) ==
    IF n = 0 THEN {<<>>}
    ELSE LET shorter == Concats(n - 1)
         IN  shorter \cup {q \o p : q \in shorter, p \in Pieces}

Queries == Concats(MaxPieces)

KeyInit ==
    /\ query1 \in Queries
    /\ query2 \in Queries
    /\ keys = None

\* Each stage builds its cache key for the two queries.
ComputeKeys ==
    /\ keys = None
    /\ keys' = [role1     |-> _extract_role_from_query(query1),
                role2     |-> _extract_role_from_query(query2),
                role_map1 |-> role_map_cache_key(query1),
                role_map2 |-> role_map_cache_key(query2),
                youtube1  |-> youtube_cache_key(query1, Junior),
                youtube2  |-> youtube_cache_key(query2, Junior)]
    /\ UNCHANGED <<query1, query2>>

(***************************************************************************)
(* The rules-based gap evaluator (agents/evaluator_recommender.py).        *)
(***************************************************************************)
\* d.get("name"): the value, or Python's None (here the empty string, which
\* the code treats alike: both are falsy) when the key is missing.
GetName(d) == IF "name" \in DOMAIN d THEN d.name ELSE <<>>

Unknown == <<"U", "n", "k", "n", "o", "w", "n">>
High    == <<"h", "i", "g", "h">>
Future  == <<"f", "u", "t", "u", "r", "e">>
Stable  == <<"s", "t", "a", "b", "l", "e">>

\* long_term_forecast.get("category", "Unknown")
RoleOutlook(forecast) ==
    IF "category" \in DOMAIN forecast THEN forecast.category ELSE Unknown

\* The priority rules with the rank test of the first tier off by one.
PriorityOf_off_by_one(market_rank, role_outlook) ==
    IF StartsWith(Lower(role_outlook), High) \/ Contains(Lower(role_outlook), Future)
    THEN IF market_rank < 10 THEN "High"
         ELSE IF market_rank <= 20 THEN "Medium" ELSE "Low"
    ELSE IF StartsWith(Lower(role_outlook), Stable)
    THEN IF market_rank <= 10 THEN "Medium" ELSE "Low"
    ELSE "Low"

\* The priority rules with the two tiers of a stable outlook exchanged.
PriorityOf_stable_exchanged(market_rank, role_outlook) ==
    IF StartsWith(Lower(role_outlook), High) \/ Contains(Lower(role_outlook), Future)
    THEN IF market_rank <= 10 THEN "High"
         ELSE IF market_rank <= 20 THEN "Medium" ELSE "Low"
    ELSE IF StartsWith(Lower(role_outlook), Stable)
    THEN IF market_rank <= 10 THEN "Low" ELSE "Medium"
    ELSE "Low"

\* The priority rules of rules_evaluator.
PriorityOf(market_rank, role_outlook) ==
    IF StartsWith(Lower(role_outlook), High) \/ Contains(Lower(role_outlook), Future)
    THEN IF market_rank <= 10 THEN "High"
         ELSE IF market_rank <= 20 THEN "Medium" ELSE "Low"
    ELSE IF StartsWith(Lower(role_outlook), Stable)
    THEN IF market_rank <= 10 THEN "Medium" ELSE "Low"
    ELSE "Low"

\* {"High": 1, "Medium": 2, "Low": 3}[priority]
PriorityNumber(priority) ==
    CASE priority = "High" -> 1
      [] priority = "Medium" -> 2
      [] priority = "Low" -> 3

\* The sort key of a gap, (priority number, market_rank), compared as tuples.
KeyLess(a, b) ==
    \/ PriorityNumber(a.priority) < PriorityNumber(b.priority)
    \/ /\ PriorityNumber(a.priority) = PriorityNumber(b.priority)
       /\ a.market_rank < b.market_rank

\* sorted(gaps, key=...): a stable sort; each element goes after the elements
\* already placed whose key is not greater.
RECURSIVE SortedGaps(_)
SortedGaps(gaps) ==
    IF gaps = <<>> THEN <<>>
    ELSE LET n     == Len(gaps)
             front == SortedGaps(SubSeq(gaps, 1, n - 1))
             x     == gaps[n]
             keep  == Cardinality({i \in 1..Len(front) : ~KeyLess(x, front[i])})
         IN  SubSeq(front, 1, keep) \o <<x>> \o SubSeq(front, keep + 1, Len(front))

\* seq[:n]
Take(seq, n) == SubSeq(seq, 1, IF Len(seq) < n THEN Len(seq) ELSE n)

\* The names the resume is indexed by: s.get("name", "").lower().
ResumeNames(resume) == {Lower(GetName(resume[i])) : i \in 1..Len(resume)}

\* The loop of rules_evaluator with the resume test made on the name as
\* written (case-sensitive).
GapAnalysis_case_sensitive(resume, market, forecast) ==
    LET top          == Take(market, 20)
        outlook      == RoleOutlook(forecast)
        resume_names == ResumeNames(resume)
        ranks        == SelectSeq([i \in 1..Len(top) |-> i],
                            LAMBDA i : /\ GetName(top[i]) # <<>>
                                       /\ GetName(top[i]) \notin resume_names)
    IN  [j \in 1..Len(ranks) |->
            [skill         |-> GetName(top[ranks[j]]),
             current_level |-> "None",
             market_rank   |-> ranks[j],
             priority      |-> PriorityOf(ranks[j], outlook),
             reasoning     |-> <<ranks[j], outlook>>]]

\* The loop of rules_evaluator: one gap per named top-20 market skill that the
\* resume does not hold, in list order. reasoning holds the two values the
\* f-string interpolates.
GapAnalysis(resume, market, forecast) ==
    LET top          == Take(market, 20)
        outlook      == RoleOutlook(forecast)
        resume_names == ResumeNames(resume)
        ranks        == SelectSeq([i \in 1..Len(top) |-> i],
                            LAMBDA i : /\ GetName(top[i]) # <<>>
                                       /\ Lower(GetName(top[i])) \notin resume_names)
    IN  [j \in 1..Len(ranks) |->
            [skill         |-> GetName(top[ranks[j]]),
             current_level |-> "None",
             market_rank   |-> ranks[j],
             priority      |-> PriorityOf(ranks[j], outlook),
             reasoning     |-> <<ranks[j], outlook>>]]

\* The learning path cut after six gaps instead of five.
LearningPath_six(gap_analysis) ==
    LET sorted_gaps == Take(SortedGaps(gap_analysis), 6)
    IN  [j \in 1..Len(sorted_gaps) |-> sorted_gaps[j].skill]

\* [g["skill"] for g in sorted_gaps[:5]]
LearningPath(gap_analysis) ==
    LET sorted_gaps == Take(SortedGaps(gap_analysis), 5)
    IN  [j \in 1..Len(sorted_gaps) |-> sorted_gaps[j].skill]

rules_evaluator(resume, market, forecast) ==
    LET gap_analysis == GapAnalysis(resume, market, forecast)
    IN  [role_outlook              |-> RoleOutlook(forecast),
         gap_analysis              |-> gap_analysis,
         recommended_learning_path |-> LearningPath(gap_analysis),
         estimated_time_weeks      |-> 12,
         confidence                |-> IF gap_analysis # <<>> THEN 75 ELSE 40]

(***************************************************************************)
(* Inputs of the gap evaluator.                                            *)
(***************************************************************************)
\* The i-th market skill is named by the i-th letter twice ("Aa", "Bb", ...),
\* with a frequency that falls with the rank.
SkillName(i) == <<UpperL[((i - 1) % 26) + 1], LowerL[((i - 1) % 26) + 1]>>
MarketFrequency(i) == IF 5 * i <= 100 THEN 100 - 5 * i ELSE 0
MarketSkill(i) ==
    [name |-> SkillName(i), type |-> "tool",
     frequency |-> MarketFrequency(i), mention_count |-> MarketFrequency(i)]
\* A market entry without the key "name", and one whose name is empty.
NoNameSkill(i) ==
    [type |-> "tool", frequency |-> MarketFrequency(i),
     mention_count |-> MarketFrequency(i)]
EmptyNameSkill(i) == [MarketSkill(i) EXCEPT !.name = <<>>]

\* The longest market list and the longest resume tried.
MaxMarket == 22
MaxResume == 2

\* Where a market list may hold a nameless entry, and of which kind.
Holes ==
    {[at |-> 0, kind |-> "none"]}
        \cup {[at |-> a, kind |-> k] : a \in {3, 12}, k \in {"missing", "empty"}}

Market(len, hole) ==
    [i \in 1..len |->
        IF i # hole.at THEN MarketSkill(i)
        ELSE IF hole.kind = "missing" THEN NoNameSkill(i) ELSE EmptyNameSkill(i)]

Markets == {Market(len, hole) : len \in 0..MaxMarket, hole \in Holes}

\* Resume skills: market names as written and in another case (the 21st is on
\* no top-20 list), and an entry without a name.
ResumePool ==
    {[name |-> Lower(SkillName(1))], [name |-> SkillName(2)],
     [name |-> Upper(SkillName(10))], [name |-> Lower(SkillName(21))],
     [type |-> "language"]}

SeqsUpTo(set, n) == UNION {[1..k -> set] : k \in 0..n}

Outlooks ==
    {<<"H","i","g","h"," ","g","r","o","w","t","h"," ","(","F","u","t","u","r","e","-","s","a","f","e",")">>,
     <<"F","u","t","u","r","e","-","s","a","f","e">>,
     <<"S","t","a","b","l","e">>,
     <<"S","T","A","B","L","E"," ","f","u","t","u","r","e">>,
     <<"D","e","c","l","i","n","i","n","g">>,
     <<"N","o","t"," ","h","i","g","h">>,
     <<"h","i","g","h">>}

\* A forecast with a category, and one without (an error result).
Forecasts ==
    {[category |-> c] : c \in Outlooks} \cup {[error |-> "no data"]}

RulesInputInit ==
    /\ short_term_skills \in Markets
    /\ resume_skills \in SeqsUpTo(ResumePool, MaxResume)
    /\ long_term_forecast \in Forecasts

\* One call of rules_evaluator on the inputs.
RulesEvaluate ==
    /\ evaluation = None
    /\ evaluation' = rules_evaluator(resume_skills, short_term_skills, long_term_forecast)
    /\ UNCHANGED inputVars

(***************************************************************************)
(* The LLM-backed evaluation and its fallbacks (tools/llm_analysis.py) and *)
(* EvaluatorRecommenderAgent.run.                                          *)
(***************************************************************************)
\* Python's None among names.
PyNone == <<"None">>

\* s.get("name")
GetNameOrNone(d) == IF "name" \in DOMAIN d THEN d.name ELSE PyNone

\* basic_skill_evaluation raises when a user skill is None (None.lower()), when a
\* required skill has no "name", or when one the user lacks has no "frequency".
BasicRaises(user_skills, required_skills) ==
    \/ \E i \in 1..Len(user_skills) : user_skills[i] = PyNone
    \/ \E i \in 1..Len(required_skills) :
          \/ "name" \notin DOMAIN required_skills[i]
          \/ /\ \A j \in 1..Len(user_skills) :
                    Lower(user_skills[j]) # Lower(required_skills[i].name)
             /\ "frequency" \notin DOMAIN required_skills[i]

\* basic_skill_evaluation, when it does not raise. summary holds the two values
\* its f-string interpolates.
basic_skill_evaluation(user_skills, required_skills, job_title) ==
    LET user_skills_lower == {Lower(user_skills[i]) : i \in 1..Len(user_skills)}
        Matches(r)  == Lower(r.name) \in user_skills_lower
        matching    == SelectSeq(required_skills, Matches)
        critical    == SelectSeq(required_skills,
                           LAMBDA r : ~Matches(r) /\ r.frequency >= 50)
        nice        == SelectSeq(required_skills,
                           LAMBDA r : ~Matches(r) /\ r.frequency < 50)
        match_score == IF required_skills # <<>>
                       THEN (Len(matching) * 100) \div Len(required_skills)
                       ELSE 0
    IN  [match_score       |-> match_score,
         matching_skills   |-> [i \in 1..Len(matching) |-> matching[i].name],
         critical_gaps     |->
             [i \in 1..Len(Take(critical, 5)) |->
                 [skill |-> critical[i].name, frequency |-> critical[i].frequency,
                  priority |-> "high", reason |-> critical[i].frequency]],
         nice_to_have_gaps |->
             [i \in 1..Len(Take(nice, 5)) |->
                 [skill |-> nice[i].name, frequency |-> nice[i].frequency,
                  priority |-> "medium"]],
         recommendations   |->
             [i \in 1..Len(Take(critical, 3)) |->
                 [skill |-> critical[i].name, action |-> critical[i].name,
                  timeframe |-> "1-2 months", priority |-> "high"]],
         summary           |-> <<match_score, job_title>>,
         job_title         |-> job_title,
         analysis_method   |-> "Basic keyword matching (LLM unavailable)"]

\* What the model call does: it raises (also on a timeout), or returns text
\* without a {...} span, text whose {...} span is not JSON, or a JSON object.
LlmObjects ==
    {[match_score |-> 75, matching_skills |-> <<>>, critical_gaps |-> <<>>,
      nice_to_have_gaps |-> <<>>, recommendations |-> <<>>, summary |-> "text"],
     [answer |-> 42]}

LlmOutcomes ==
    {[kind |-> k, object |-> None] : k \in {"raises", "no_braces", "bad_json"}}
        \cup {[kind |-> "object", object |-> o] : o \in LlmObjects}

\* The try block of evaluate_user_skills_with_gemini raises: the model call
\* fails, a user skill is None (", ".join), one of the first 15 required skills
\* lacks a key the prompt formats, or no JSON can be read from the answer.
GeminiTryRaises(user_skills, required_skills, outcome) ==
    \/ outcome.kind \in {"raises", "no_braces", "bad_json"}
    \/ \E i \in 1..Len(user_skills) : user_skills[i] = PyNone
    \/ \E i \in 1..Len(Take(required_skills, 15)) :
          {"name", "type", "frequency"} \ DOMAIN required_skills[i] # {}

\* d with d[k] = v set: the record d extended or overwritten at k.
DictSet(d, k, v) == [f \in DOMAIN d \cup {k} |-> IF f = k THEN v ELSE d[f]]

\* evaluate_user_skills_with_gemini: [raised |-> TRUE] when the exception of
\* basic_skill_evaluation leaves it, the returned dict otherwise.
evaluate_user_skills_with_gemini(user_skills, required_skills, job_title, outcome) ==
    IF ~GeminiTryRaises(user_skills, required_skills, outcome)
    THEN [raised |-> FALSE,
          value  |-> DictSet(DictSet(outcome.object, "job_title", job_title),
                             "analysis_method", "Gemini 2.0 Flash")]
    ELSE IF BasicRaises(user_skills, required_skills)
    THEN [raised |-> TRUE, value |-> None]
    ELSE [raised |-> FALSE,
          value  |-> basic_skill_evaluation(user_skills, required_skills, job_title)]

\* long_term_forecast.get("category", "")
CategoryOrEmpty(forecast) ==
    IF "category" \in DOMAIN forecast THEN forecast.category ELSE <<>>

\* EvaluatorRecommenderAgent.run. The tool returns a dict or raises, never a
\* str, so of the two isinstance branches only the dict one is taken.
EvaluatorRun(resume, market, forecast, outcome) ==
    LET llm_response ==
            evaluate_user_skills_with_gemini(
                [i \in 1..Len(resume) |-> GetNameOrNone(resume[i])],
                market, CategoryOrEmpty(forecast), outcome)
    IN  IF ~llm_response.raised
        THEN llm_response.value
        ELSE rules_evaluator(resume, market, forecast)

\* The inputs of the agent's runs: short market lists whose entries may lack keys.
MaxAgentMarket == 2
MaxAgentResume == 1

AgentMarketPool ==
    {MarketSkill(1), MarketSkill(12), [name |-> SkillName(3)], NoNameSkill(4)}

AgentInputInit ==
    /\ short_term_skills \in SeqsUpTo(AgentMarketPool, MaxAgentMarket)
    /\ resume_skills \in SeqsUpTo(ResumePool, MaxAgentResume)
    /\ long_term_forecast \in Forecasts
    /\ llm \in LlmOutcomes

\* One call of EvaluatorRecommenderAgent.run on the payload.
AgentRun ==
    /\ run_result = None
    /\ run_result' =
           EvaluatorRun(resume_skills, short_term_skills, long_term_forecast, llm)
    /\ UNCHANGED <<inputVars, llm>>

(***************************************************************************)
(* json.dumps / json.loads on the payloads the caches hold.                *)
(*                                                                         *)
(* A payload is a dict with the stage's "cache_ttl_seconds" and one member *)
(* whose Python type is a list, a tuple or a set. JSON has arrays only: a  *)
(* list and a tuple are both written as an array, an array is read back as *)
(* a list, and a set cannot be written (json.dumps raises TypeError).      *)
(***************************************************************************)
DAY  == 86400
WEEK == 604800

Payloads == [cache_ttl_seconds : {DAY, WEEK}, member : {"list", "tuple", "set"}]

Serialisable(v) == v.member # "set"

json_dumps(v) ==
    [text |-> [cache_ttl_seconds |-> v.cache_ttl_seconds, member |-> "array"]]

json_loads(t) ==
    [cache_ttl_seconds |-> t.text.cache_ttl_seconds, member |-> "list"]

\* A payload that json.loads(json.dumps(v)) gives back unchanged.
IsJson(v) == v.member = "list"

(***************************************************************************)
(* The two caches. Python's None, returned by a get, is Absent. Timestamps *)
(* are written with isoformat() and read with fromisoformat(), which give  *)
(* back the same instant; they are kept as seconds.                        *)
(***************************************************************************)
Keys == {"k1", "k2"}
Absent == [absent |-> TRUE]
NoEntries == [k \in Keys |-> None]

\* ---- tools/cache_db.py: table cache, one row per key.

\* get_from_cache(key) on rows `rows` at time t.
get_from_cache(rows, key, t) ==
    IF rows[key] = None THEN Absent
    ELSE IF t - rows[key].timestamp > rows[key].ttl_seconds THEN Absent
    ELSE json_loads(rows[key].value)

\* The rows after set_in_cache(key, value, ttl_seconds) at time t; the
\* arguments of execute are evaluated first, so a value json.dumps rejects
\* leaves the table as it was.
set_in_cache(rows, key, value, ttl_seconds, t) ==
    IF ~Serialisable(value) THEN rows
    ELSE [rows EXCEPT ![key] = [value       |-> json_dumps(value),
                                timestamp   |-> t,
                                ttl_seconds |-> ttl_seconds]]

\* ---- tools/cache_tools.py: one JSON file holding a dict of all entries.
\* The file is missing, holds the JSON of a dict of entries, holds nothing
\* (just truncated by open(..., 'w')), or holds text that is not JSON.
FileMissing   == [state |-> "missing",   entries |-> NoEntries]
FileTruncated == [state |-> "truncated", entries |-> NoEntries]
FileCorrupt   == [state |-> "corrupt",   entries |-> NoEntries]
FileJson(entries) == [state |-> "json", entries |-> entries]

\* json.load(f) of the entries: each entry's data read back.
LoadedEntries(f) ==
    [k \in Keys |->
        IF f.entries[k] = None THEN None
        ELSE [timestamp |-> f.entries[k].timestamp,
              data      |-> json_loads(f.entries[k].data)]]

\* cache_skills_data, "Load existing cache": the dict `cache`, or raised when
\* the file exists and json.load fails on it.
LoadExisting(f) ==
    IF f.state = "missing" THEN [raised |-> FALSE, cache |-> NoEntries]
    ELSE IF f.state = "json" THEN [raised |-> FALSE, cache |-> LoadedEntries(f)]
    ELSE [raised |-> TRUE, cache |-> NoEntries]

\* The file after open(CACHE_FILE, 'w') and json.dump(cache, f): json.dump
\* raises on a member it cannot write, after the file was truncated and the
\* start of the text written.
Dumped(cache) ==
    IF \E k \in Keys : cache[k] # None /\ ~Serialisable(cache[k].data)
    THEN FileCorrupt
    ELSE FileJson([k \in Keys |->
             IF cache[k] = None THEN None
             ELSE [timestamp |-> cache[k].timestamp,
                   data      |-> json_dumps(cache[k].data)]])

\* "Add new entry"
WithEntry(cache, role, data, t) ==
    [cache EXCEPT ![role] = [timestamp |-> t, data |-> data]]

\* The file after cache_skills_data(role, data) at time t, run alone: every
\* exception is caught and printed, and the call returns None.
cache_skills_data(f, role, data, t) ==
    IF LoadExisting(f).raised THEN f
    ELSE Dumped(WithEntry(LoadExisting(f).cache, role, data, t))

\* get_cached_skills(role, ttl_seconds) on file f at time t.
get_cached_skills(f, role, ttl_seconds, t) ==
    IF f.state # "json" THEN Absent
    ELSE IF f.entries[role] = None THEN Absent
    ELSE IF t - f.entries[role].timestamp > ttl_seconds THEN Absent
    ELSE json_loads(f.entries[role].data)

(***************************************************************************)
(* The cache operations called one after another, with a clock.            *)
(***************************************************************************)
\* The number of clock advances in a run.
MaxTicks == 3
ClockSteps == {1, DAY, WEEK}
Ttls == {DAY, WEEK}

CacheInit ==
    /\ now = 0
    /\ ticks = 0
    /\ db = NoEntries
    /\ file = FileMissing
    /\ lastSet = NoEntries
    /\ ret = None

\* Time passes.
Tick ==
    /\ ticks < MaxTicks
    /\ \E d \in ClockSteps : now' = now + d
    /\ ticks' = ticks + 1
    /\ UNCHANGED <<db, file, lastSet, ret>>

\* set_in_cache(key, value, ttl_seconds)
SetInCache ==
    \E key \in Keys, value \in Payloads, ttl_seconds \in Ttls :
        /\ db' = set_in_cache(db, key, value, ttl_seconds, now)
        /\ lastSet' = IF Serialisable(value)
                      THEN [lastSet EXCEPT ![key] =
                               [impl |-> "db", value |-> value, at |-> now,
                                ttl_seconds |-> ttl_seconds]]
                      ELSE lastSet
        /\ ret' = [op |-> "set_in_cache", key |-> key, value |-> value,
                   ttl_seconds |-> ttl_seconds, at |-> now,
                   result |-> IF Serialisable(value) THEN [returned |-> TRUE]
                              ELSE [raised |-> TRUE]]
        /\ UNCHANGED <<now, ticks, file>>

\* get_from_cache(key)
GetFromCache ==
    \E key \in Keys :
        /\ ret' = [op |-> "get_from_cache", key |-> key, value |-> None,
                   ttl_seconds |-> 0, at |-> now,
                   result |-> get_from_cache(db, key, now)]
        /\ UNCHANGED <<now, ticks, db, file, lastSet>>

\* clear_cache(): DELETE FROM cache, on the SQLite table; the cache file of
\* tools/cache_tools.py is not touched.
ClearCache ==
    /\ db' = NoEntries
    /\ lastSet' = [k \in Keys |->
                      IF lastSet[k] # None /\ lastSet[k].impl = "db" THEN None
                      ELSE lastSet[k]]
    /\ ret' = [op |-> "clear_cache", key |-> "", value |-> None,
               ttl_seconds |-> 0, at |-> now, result |-> [returned |-> TRUE]]
    /\ UNCHANGED <<now, ticks, file>>

\* cache_skills_data(role, data): the call always returns; the ttl stored with
\* the entry is the cache_ttl_seconds of its payload.
CacheSkillsData ==
    \E role \in Keys, data \in Payloads :
        /\ file' = cache_skills_data(file, role, data, now)
        /\ lastSet' = [lastSet EXCEPT ![role] =
                          [impl |-> "file", value |-> data, at |-> now,
                           ttl_seconds |-> data.cache_ttl_seconds]]
        /\ ret' = [op |-> "cache_skills_data", key |-> role, value |-> data,
                   ttl_seconds |-> data.cache_ttl_seconds, at |-> now,
                   result |-> [returned |-> TRUE]]
        /\ UNCHANGED <<now, ticks, db>>

\* get_cached_skills(role, ttl_seconds)
GetCachedSkills ==
    \E role \in Keys, ttl_seconds \in Ttls :
        /\ ret' = [op |-> "get_cached_skills", key |-> role, value |-> None,
                   ttl_seconds |-> ttl_seconds, at |-> now,
                   result |-> get_cached_skills(file, role, ttl_seconds, now)]
        /\ UNCHANGED <<now, ticks, db, file, lastSet>>

(***************************************************************************)
(* Two writers of a cache running at once. set_in_cache is one SQLite      *)
(* transaction (INSERT OR REPLACE, commit). cache_skills_data is three     *)
(* steps on the shared file: it reads the whole file, truncates it with    *)
(* open(..., 'w'), and writes its own copy back.                           *)
(***************************************************************************)
Writers == {1, 2}
Requests == [impl : {"db", "file"}, key : Keys, value : Payloads]

ConcInit ==
    /\ wreq \in [Writers -> Requests]
    /\ wpc = [w \in Writers |-> "start"]
    /\ wbuf = [w \in Writers |-> NoEntries]

\* set_in_cache by writer w, with the payload's ttl.
DbWrite(w) ==
    /\ wpc[w] = "start"
    /\ wreq[w].impl = "db"
    /\ db' = set_in_cache(db, wreq[w].key, wreq[w].value,
                          wreq[w].value.cache_ttl_seconds, now)
    /\ wpc' = [wpc EXCEPT ![w] = "done"]
    /\ UNCHANGED <<file, wreq, wbuf>>

\* cache_skills_data by writer w, "Load existing cache" and "Add new entry":
\* when the file cannot be read the exception ends the call.
FileLoad(w) ==
    /\ wpc[w] = "start"
    /\ wreq[w].impl = "file"
    /\ IF LoadExisting(file).raised
       THEN /\ wpc' = [wpc EXCEPT ![w] = "done"]
            /\ UNCHANGED wbuf
       ELSE /\ wpc' = [wpc EXCEPT ![w] = "loaded"]
            /\ wbuf' = [wbuf EXCEPT ![w] =
                           WithEntry(LoadExisting(file).cache, wreq[w].key,
                                     wreq[w].value, now)]
    /\ UNCHANGED <<db, file, wreq>>

\* open(CACHE_FILE, 'w') truncates the file.
FileOpen(w) ==
    /\ wpc[w] = "loaded"
    /\ file' = FileTruncated
    /\ wpc' = [wpc EXCEPT ![w] = "opened"]
    /\ UNCHANGED <<db, wreq, wbuf>>

\* json.dump writes the writer's copy from offset 0. On a file the other
\* writer has written since this writer's open, the bytes overlay the other
\* text: the result is this writer's text, or not JSON when the other text
\* was longer.
FileDump(w) ==
    /\ wpc[w] = "opened"
    /\ file' \in IF file.state = "truncated" THEN {Dumped(wbuf[w])}
                 ELSE {Dumped(wbuf[w]), FileCorrupt}
    /\ wpc' = [wpc EXCEPT ![w] = "done"]
    /\ UNCHANGED <<db, wreq, wbuf>>

(***************************************************************************)
(* Occupation lookup (tools/careeronestop_tools.py). Titles and codes are  *)
(* sequences of characters; a confidence is in hundredths.                 *)
(***************************************************************************)
\* priority_keywords, in the order of the dict.
priority_keywords ==
    <<[key |-> <<"d", "a", "t", "a", " ", "s", "c", "i", "e", "n", "t", "i", "s", "t">>,
       keywords |-> <<<<"d", "a", "t", "a", " ", "s", "c", "i", "e", "n">>,
                      <<"1", "5", "-", "2", "0", "5", "1">>>>],
      [key |-> <<"s", "o", "f", "t", "w", "a", "r", "e", " ", "e", "n", "g", "i", "n", "e", "e", "r">>,
       keywords |-> <<<<"s", "o", "f", "t", "w", "a", "r", "e", " ", "d", "e", "v">>,
                      <<"s", "o", "f", "t", "w", "a", "r", "e", " ", "e", "n", "g">>,
                      <<"1", "5", "-", "1", "2", "5", "2">>>>],
      [key |-> <<"m", "a", "c", "h", "i", "n", "e", " ", "l", "e", "a", "r", "n", "i", "n", "g">>,
       keywords |-> <<<<"d", "a", "t", "a", " ", "s", "c", "i", "e", "n">>,
                      <<"1", "5", "-", "2", "0", "5", "1">>>>],
      [key |-> <<"c", "l", "o", "u", "d", " ", "e", "n", "g", "i", "n", "e", "e", "r">>,
       keywords |-> <<<<"n", "e", "t", "w", "o", "r", "k">>,
                      <<"c", "l", "o", "u", "d">>,
                      <<"1", "5", "-", "1", "2", "4", "4">>>>],
      [key |-> <<"d", "e", "v", "o", "p", "s">>,
       keywords |-> <<<<"s", "o", "f", "t", "w", "a", "r", "e", " ", "d", "e", "v">>,
                      <<"1", "5", "-", "1", "2", "5", "2">>>>],
      [key |-> <<"d", "a", "t", "a", " ", "a", "n", "a", "l", "y", "s", "t">>,
       keywords |-> <<<<"d", "a", "t", "a", " ", "a", "n", "a", "l">>,
                      <<"o", "p", "e", "r", "a", "t", "i", "o", "n", "s", " ", "r", "e", "s", "e", "a", "r", "c", "h">>,
                      <<"1", "5", "-", "2", "0", "4", "1">>>>],
      [key |-> <<"w", "e", "b", " ", "d", "e", "v", "e", "l", "o", "p", "e", "r">>,
       keywords |-> <<<<"w", "e", "b", " ", "d", "e", "v">>,
                      <<"1", "5", "-", "1", "2", "5", "4">>>>]>>

\* common_mappings, in the order of the dict.
common_mappings ==
    <<[key |-> <<"d", "a", "t", "a", " ", "s", "c", "i", "e", "n", "t", "i", "s", "t">>,
       title |-> <<"D", "a", "t", "a", " ", "S", "c", "i", "e", "n", "t", "i", "s", "t", "s">>,
       soc |-> <<"1", "5", "-", "2", "0", "5", "1">>, confidence |-> 85],
      [key |-> <<"m", "a", "c", "h", "i", "n", "e", " ", "l", "e", "a", "r", "n", "i", "n", "g", " ", "e", "n", "g", "i", "n", "e", "e", "r">>,
       title |-> <<"D", "a", "t", "a", " ", "S", "c", "i", "e", "n", "t", "i", "s", "t", "s">>,
       soc |-> <<"1", "5", "-", "2", "0", "5", "1">>, confidence |-> 80],
      [key |-> <<"m", "l", " ", "e", "n", "g", "i", "n", "e", "e", "r">>,
       title |-> <<"D", "a", "t", "a", " ", "S", "c", "i", "e", "n", "t", "i", "s", "t", "s">>,
       soc |-> <<"1", "5", "-", "2", "0", "5", "1">>, confidence |-> 80],
      [key |-> <<"s", "o", "f", "t", "w", "a", "r", "e", " ", "e", "n", "g", "i", "n", "e", "e", "r">>,
       title |-> <<"S", "o", "f", "t", "w", "a", "r", "e", " ", "D", "e", "v", "e", "l", "o", "p", "e", "r", "s">>,
       soc |-> <<"1", "5", "-", "1", "2", "5", "2">>, confidence |-> 85],
      [key |-> <<"s", "o", "f", "t", "w", "a", "r", "e", " ", "d", "e", "v", "e", "l", "o", "p", "e", "r">>,
       title |-> <<"S", "o", "f", "t", "w", "a", "r", "e", " ", "D", "e", "v", "e", "l", "o", "p", "e", "r", "s">>,
       soc |-> <<"1", "5", "-", "1", "2", "5", "2">>, confidence |-> 90],
      [key |-> <<"d", "e", "v", "e", "l", "o", "p", "e", "r">>,
       title |-> <<"S", "o", "f", "t", "w", "a", "r", "e", " ", "D", "e", "v", "e", "l", "o", "p", "e", "r", "s">>,
       soc |-> <<"1", "5", "-", "1", "2", "5", "2">>, confidence |-> 75],
      [key |-> <<"f", "u", "l", "l", " ", "s", "t", "a", "c", "k", " ", "d", "e", "v", "e", "l", "o", "p", "e", "r">>,
       title |-> <<"S", "o", "f", "t", "w", "a", "r", "e", " ", "D", "e", "v", "e", "l", "o", "p", "e", "r", "s">>,
       soc |-> <<"1", "5", "-", "1", "2", "5", "2">>, confidence |-> 85],
      [key |-> <<"f", "r", "o", "n", "t", "e", "n", "d", " ", "d", "e", "v", "e", "l", "o", "p", "e", "r">>,
       title |-> <<"W", "e", "b", " ", "D", "e", "v", "e", "l", "o", "p", "e", "r", "s">>,
       soc |-> <<"1", "5", "-", "1", "2", "5", "4">>, confidence |-> 85],
      [key |-> <<"b", "a", "c", "k", "e", "n", "d", " ", "d", "e", "v", "e", "l", "o", "p", "e", "r">>,
       title |-> <<"S", "o", "f", "t", "w", "a", "r", "e", " ", "D", "e", "v", "e", "l", "o", "p", "e", "r", "s">>,
       soc |-> <<"1", "5", "-", "1", "2", "5", "2">>, confidence |-> 85],
      [key |-> <<"w", "e", "b", " ", "d", "e", "v", "e", "l", "o", "p", "e", "r">>,
       title |-> <<"W", "e", "b", " ", "D", "e", "v", "e", "l", "o", "p", "e", "r", "s">>,
       soc |-> <<"1", "5", "-", "1", "2", "5", "4">>, confidence |-> 90],
      [key |-> <<"d", "e", "v", "o", "p", "s", " ", "e", "n", "g", "i", "n", "e", "e", "r">>,
       title |-> <<"S", "o", "f", "t", "w", "a", "r", "e", " ", "D", "e", "v", "e", "l", "o", "p", "e", "r", "s">>,
       soc |-> <<"1", "5", "-", "1", "2", "5", "2">>, confidence |-> 75],
      [key |-> <<"m", "l", "o", "p", "s", " ", "e", "n", "g", "i", "n", "e", "e", "r">>,
       title |-> <<"S", "o", "f", "t", "w", "a", "r", "e", " ", "D", "e", "v", "e", "l", "o", "p", "e", "r", "s">>,
       soc |-> <<"1", "5", "-", "1", "2", "5", "2">>, confidence |-> 70],
      [key |-> <<"c", "l", "o", "u", "d", " ", "e", "n", "g", "i", "n", "e", "e", "r">>,
       title |-> <<"N", "e", "t", "w", "o", "r", "k", " ", "a", "n", "d", " ", "C", "o", "m", "p", "u", "t", "e", "r", " ", "S", "y", "s", "t", "e", "m", "s", " ", "A", "d", "m", "i", "n", "i", "s", "t", "r", "a", "t", "o", "r", "s">>,
       soc |-> <<"1", "5", "-", "1", "2", "4", "4">>, confidence |-> 80],
      [key |-> <<"c", "l", "o", "u", "d", " ", "a", "r", "c", "h", "i", "t", "e", "c", "t">>,
       title |-> <<"C", "o", "m", "p", "u", "t", "e", "r", " ", "N", "e", "t", "w", "o", "r", "k", " ", "A", "r", "c", "h", "i", "t", "e", "c", "t", "s">>,
       soc |-> <<"1", "5", "-", "1", "2", "4", "1">>, confidence |-> 85],
      [key |-> <<"d", "a", "t", "a", " ", "a", "n", "a", "l", "y", "s", "t">>,
       title |-> <<"D", "a", "t", "a", " ", "A", "n", "a", "l", "y", "s", "t", "s">>,
       soc |-> <<"1", "5", "-", "2", "0", "5", "1">>, confidence |-> 85],
      [key |-> <<"d", "a", "t", "a", " ", "e", "n", "g", "i", "n", "e", "e", "r">>,
       title |-> <<"D", "a", "t", "a", "b", "a", "s", "e", " ", "A", "r", "c", "h", "i", "t", "e", "c", "t", "s">>,
       soc |-> <<"1", "5", "-", "1", "2", "4", "3">>, confidence |-> 80],
      [key |-> <<"b", "u", "s", "i", "n", "e", "s", "s", " ", "a", "n", "a", "l", "y", "s", "t">>,
       title |-> <<"M", "a", "n", "a", "g", "e", "m", "e", "n", "t", " ", "A", "n", "a", "l", "y", "s", "t", "s">>,
       soc |-> <<"1", "3", "-", "1", "1", "1", "1">>, confidence |-> 80],
      [key |-> <<"p", "r", "o", "d", "u", "c", "t", " ", "m", "a", "n", "a", "g", "e", "r">>,
       title |-> <<"C", "o", "m", "p", "u", "t", "e", "r", " ", "a", "n", "d", " ", "I", "n", "f", "o", "r", "m", "a", "t", "i", "o", "n", " ", "S", "y", "s", "t", "e", "m", "s", " ", "M", "a", "n", "a", "g", "e", "r", "s">>,
       soc |-> <<"1", "1", "-", "3", "0", "2", "1">>, confidence |-> 75]>>

\* occupation.get("OccupationTitle", "")
OccupationTitle(occupation) ==
    IF "OccupationTitle" \in DOMAIN occupation THEN occupation.OccupationTitle ELSE <<>>

\* occupation.get("OccupationTitle")
OccupationTitleOrNone(occupation) ==
    IF "OccupationTitle" \in DOMAIN occupation THEN occupation.OccupationTitle ELSE PyNone

\* occupation.get("OnetCode", "")
OnetCode(occupation) ==
    IF "OnetCode" \in DOMAIN occupation THEN occupation.OnetCode ELSE <<>>

\* format_soc_code: None for an empty code, else the part before the first ".".
format_soc_code(onet_code) ==
    IF onet_code = <<>> THEN PyNone
    ELSE LET dots == {i \in 1..Len(onet_code) : onet_code[i] = "."}
         IN  IF dots = {} THEN onet_code
             ELSE SubSeq(onet_code, 1, (CHOOSE i \in dots : \A j \in dots : i <= j) - 1)

\* The entries of priority_keywords whose key is in the query and one of whose
\* keywords is in the occupation's lower-cased title or in its code.
PriorityHits(query_lower, occupation) ==
    {k \in 1..Len(priority_keywords) :
        /\ Contains(query_lower, priority_keywords[k].key)
        /\ \E w \in 1..Len(priority_keywords[k].keywords) :
               \/ Contains(Lower(OccupationTitle(occupation)),
                           priority_keywords[k].keywords[w])
               \/ Contains(OnetCode(occupation), priority_keywords[k].keywords[w])}

\* The smallest member of a non-empty set of integers.
Min(set) == CHOOSE i \in set : \A j \in set : i <= j

\* select_best_match: one loop over the candidates, each tried for an exact
\* title and then for a priority keyword; the first that passes either test is
\* returned.
select_best_match(query, occupations) ==
    LET query_lower == Lower(query)
        Exact(i) == query_lower = Lower(OccupationTitle(occupations[i]))
        hits == {i \in 1..Len(occupations) :
                    Exact(i) \/ PriorityHits(query_lower, occupations[i]) # {}}
    IN  IF hits # {}
        THEN LET occupation == occupations[Min(hits)]
             IN  IF Exact(Min(hits))
                 THEN [title      |-> OccupationTitleOrNone(occupation),
                       code       |-> format_soc_code(OnetCode(occupation)),
                       confidence |-> 100,
                       notes      |-> <<"Exact match found">>]
                 ELSE [title      |-> OccupationTitleOrNone(occupation),
                       code       |-> format_soc_code(OnetCode(occupation)),
                       confidence |-> 90,
                       notes      |-> <<"Matched via priority keywords: ",
                                        priority_keywords[Min(PriorityHits(
                                            query_lower, occupation))].key>>]
        ELSE IF occupations # <<>>
        THEN [title      |-> OccupationTitleOrNone(occupations[1]),
              code       |-> format_soc_code(OnetCode(occupations[1])),
              confidence |-> 75,
              notes      |-> <<"Best available match from API results">>]
        ELSE [title |-> query, code |-> PyNone, confidence |-> 30,
              notes |-> <<"No suitable match found">>]

\* The entries of common_mappings that contain the title or are contained in it.
PartialMatches(title_lower) ==
    {i \in 1..Len(common_mappings) :
        \/ Contains(title_lower, common_mappings[i].key)
        \/ Contains(common_mappings[i].key, title_lower)}

\* fuzzy_match_occupation with the partial match reported without its penalty.
fuzzy_match_occupation_no_penalty(job_title) ==
    LET title_lower == Strip(Lower(job_title))
        exact   == {i \in 1..Len(common_mappings) : common_mappings[i].key = title_lower}
        partial == PartialMatches(title_lower)
    IN  IF exact # {}
        THEN [official_title |-> common_mappings[Min(exact)].title,
              soc_code       |-> common_mappings[Min(exact)].soc,
              confidence     |-> common_mappings[Min(exact)].confidence,
              notes          |-> <<"Matched via fallback database (API unavailable)">>,
              data_source    |-> "Local mapping"]
        ELSE IF partial # {}
        THEN [official_title |-> common_mappings[Min(partial)].title,
              soc_code       |-> common_mappings[Min(partial)].soc,
              confidence     |-> common_mappings[Min(partial)].confidence,
              notes          |-> <<"Partial match: ", job_title,
                                   common_mappings[Min(partial)].key>>,
              data_source    |-> "Local mapping"]
        ELSE [official_title |-> job_title,
              soc_code       |-> PyNone,
              confidence     |-> 30,
              notes          |-> <<"No match found. Manual mapping recommended.">>,
              data_source    |-> "No match"]

\* fuzzy_match_occupation: the table entry of the lower-cased, stripped title,
\* else the first entry that contains it or is contained in it, else no match.
fuzzy_match_occupation(job_title) ==
    LET title_lower == Strip(Lower(job_title))
        exact   == {i \in 1..Len(common_mappings) : common_mappings[i].key = title_lower}
        partial == PartialMatches(title_lower)
    IN  IF exact # {}
        THEN [official_title |-> common_mappings[Min(exact)].title,
              soc_code       |-> common_mappings[Min(exact)].soc,
              confidence     |-> common_mappings[Min(exact)].confidence,
              notes          |-> <<"Matched via fallback database (API unavailable)">>,
              data_source    |-> "Local mapping"]
        ELSE IF partial # {}
        THEN [official_title |-> common_mappings[Min(partial)].title,
              soc_code       |-> common_mappings[Min(partial)].soc,
              confidence     |-> common_mappings[Min(partial)].confidence - 10,
              notes          |-> <<"Partial match: ", job_title,
                                   common_mappings[Min(partial)].key>>,
              data_source    |-> "Local mapping"]
        ELSE [official_title |-> job_title,
              soc_code       |-> PyNone,
              confidence     |-> 30,
              notes          |-> <<"No match found. Manual mapping recommended.">>,
              data_source    |-> "No match"]

\* What the GET in search_occupation does: the credentials are not configured
\* (no request is made); the request raises (timeout, transport error, HTTP
\* error status, a body that is not JSON, a JSON body that is not an object);
\* or the body is an object, with or without an OccupationList.
ApiFailures == {"timeout", "transport_error", "http_error", "bad_json", "not_object"}

\* search_occupation with an empty candidate list handed to select_best_match.
search_occupation_no_empty_test(job_title, response) ==
    IF response.kind = "no_credentials"
    THEN [error          |-> "CareerOneStop API credentials not configured",
          official_title |-> PyNone,
          soc_code       |-> PyNone,
          confidence     |-> 0]
    ELSE IF response.kind \in ApiFailures
    THEN fuzzy_match_occupation(job_title)
    ELSE LET occupations == IF response.kind = "no_list" THEN <<>>
                            ELSE response.OccupationList
             best_match  == select_best_match(job_title, occupations)
         IN  [official_title   |-> best_match.title,
              soc_code         |-> best_match.code,
              alternate_titles |-> <<>>,
              confidence       |-> best_match.confidence,
              notes            |-> best_match.notes,
              data_source      |-> "CareerOneStop"]

\* search_occupation answering from the local mapping when the credentials are
\* not configured.
search_occupation_local_without_credentials(job_title, response) ==
    IF response.kind \in {"no_credentials"} \cup ApiFailures
    THEN fuzzy_match_occupation(job_title)
    ELSE LET occupations == IF response.kind = "no_list" THEN <<>>
                            ELSE response.OccupationList
             best_match  == select_best_match(job_title, occupations)
         IN  IF occupations = <<>>
             THEN fuzzy_match_occupation(job_title)
             ELSE [official_title   |-> best_match.title,
                   soc_code         |-> best_match.code,
                   alternate_titles |-> <<>>,
                   confidence       |-> best_match.confidence,
                   notes            |-> best_match.notes,
                   data_source      |-> "CareerOneStop"]

\* search_occupation.
search_occupation(job_title, response) ==
    IF response.kind = "no_credentials"
    THEN [error          |-> "CareerOneStop API credentials not configured",
          official_title |-> PyNone,
          soc_code       |-> PyNone,
          confidence     |-> 0]
    ELSE IF response.kind \in ApiFailures
    THEN fuzzy_match_occupation(job_title)
    ELSE LET occupations == IF response.kind = "no_list" THEN <<>>
                            ELSE response.OccupationList
             best_match  == select_best_match(job_title, occupations)
         IN  IF occupations = <<>>
             THEN fuzzy_match_occupation(job_title)
             ELSE [official_title   |-> best_match.title,
                   soc_code         |-> best_match.code,
                   alternate_titles |-> <<>>,
                   confidence       |-> best_match.confidence,
                   notes            |-> best_match.notes,
                   data_source      |-> "CareerOneStop"]

\* The titles looked up: table keys, parts of keys, titles that hold a key and
\* titles in no table, each as written, in upper case, in title case, with
\* outer spaces, and behind "senior ".
OccupationCores ==
    {<<"d", "a", "t", "a", " ", "s", "c", "i", "e", "n", "t", "i", "s", "t">>,
     <<"m", "a", "c", "h", "i", "n", "e", " ", "l", "e", "a", "r", "n", "i", "n", "g", " ", "e", "n", "g", "i", "n", "e", "e", "r">>,
     <<"s", "o", "f", "t", "w", "a", "r", "e", " ", "d", "e", "v", "e", "l", "o", "p", "e", "r">>,
     <<"w", "e", "b", " ", "d", "e", "v", "e", "l", "o", "p", "e", "r">>,
     <<"m", "l", " ", "e", "n", "g", "i", "n", "e", "e", "r">>,
     <<"e", "n", "g", "i", "n", "e", "e", "r">>,
     <<"p", "l", "u", "m", "b", "e", "r">>,
     <<>>}
Senior == <<"s", "e", "n", "i", "o", "r", " ">>
JobTitles ==
    UNION {{c, Upper(c), Title(c), <<" ">> \o c \o <<" ">>, Senior \o c} :
              c \in OccupationCores}

\* The candidates an OccupationList may hold.
OccupationPool ==
    {[OccupationTitle |-> <<"D", "a", "t", "a", " ", "S", "c", "i", "e", "n", "t", "i", "s", "t">>, OnetCode |-> <<"1", "5", "-", "2", "0", "5", "1", ".", "0", "0">>],
     [OccupationTitle |-> <<"D", "a", "t", "a", " ", "S", "c", "i", "e", "n", "t", "i", "s", "t", "s">>, OnetCode |-> <<"1", "5", "-", "2", "0", "5", "1", ".", "0", "0">>],
     [OccupationTitle |-> <<"P", "l", "u", "m", "b", "e", "r", "s">>, OnetCode |-> <<"4", "7", "-", "2", "1", "5", "2", ".", "0", "0">>],
     [OccupationTitle |-> <<"S", "t", "a", "t", "i", "s", "t", "i", "c", "i", "a", "n", "s">>, OnetCode |-> <<"1", "5", "-", "2", "0", "5", "1", ".", "0", "1">>],
     [OccupationTitle |-> <<"P", "l", "u", "m", "b", "e", "r">>]}

MaxCandidates == 2

ApiResponses ==
    {[kind |-> k, OccupationList |-> <<>>] :
         k \in {"no_credentials", "no_list"} \cup ApiFailures}
        \cup {[kind |-> "ok", OccupationList |-> l] :
                  l \in SeqsUpTo(OccupationPool, MaxCandidates)}

OccupationInit ==
    /\ occ_query \in JobTitles
    /\ occ_api \in ApiResponses
    /\ occ_best = None
    /\ occ_local = None
    /\ occ_mapping = None

\* One call of select_best_match on the title and the candidates.
SelectBestMatch ==
    /\ occ_best = None
    /\ occ_best' = select_best_match(occ_query, occ_api.OccupationList)
    /\ UNCHANGED <<occ_query, occ_api, occ_local, occ_mapping>>

\* One call of fuzzy_match_occupation on the title.
FuzzyMatchOccupation ==
    /\ occ_local = None
    /\ occ_local' = fuzzy_match_occupation(occ_query)
    /\ UNCHANGED <<occ_query, occ_api, occ_best, occ_mapping>>

\* One call of search_occupation on the title, the GET answering occ_api.
SearchOccupation ==
    /\ occ_mapping = None
    /\ occ_mapping' = search_occupation(occ_query, occ_api)
    /\ UNCHANGED <<occ_query, occ_api, occ_best, occ_local>>

(***************************************************************************)
(* Job projections (tools/bls_tools.py) and LongTermForecastAgent.run. An  *)
(* employment value of the API is in thousands; a growth rate is in        *)
(* hundredths of a percent.                                                *)
(***************************************************************************)
\* datetime.now().year
CurrentYear == 2026

\* growth_rates, in the order of the dict, each with the employment figures
\* int(base_employment * ((1 + growth_rate/100) ** i)), i = 0..10, as the
\* float arithmetic of the code gives them.
growth_rates ==
    <<[prefix |-> <<"1", "5", "-">>, rate |-> 1020,
       employment |-> <<750000, 826500, 910803, 1003704, 1106082, 1218903,
                        1343231, 1480240, 1631225, 1797610, 1980966>>],
      [prefix |-> <<"1", "3", "-">>, rate |-> 680,
       employment |-> <<750000, 801000, 855468, 913639, 975767, 1042119,
                        1112983, 1188666, 1269495, 1355821, 1448017>>],
      [prefix |-> <<"2", "9", "-">>, rate |-> 840,
       employment |-> <<750000, 813000, 881292, 955320, 1035567, 1122555,
                        1216849, 1319065, 1429866, 1549975, 1680173>>],
      [prefix |-> <<"2", "7", "-">>, rate |-> 250,
       employment |-> <<750000, 768749, 787968, 807667, 827859, 848556,
                        869770, 891514, 913802, 936647, 960063>>],
      [prefix |-> <<"1", "1", "-">>, rate |-> 410,
       employment |-> <<750000, 780750, 812760, 846083, 880773, 916885,
                        954477, 993610, 1034349, 1076757, 1120904>>]>>

\* growth_rate = 3.1, the default, with its employment figures.
DefaultGrowth ==
    [rate |-> 310,
     employment |-> <<750000, 773249, 797220, 821934, 847414, 873684,
                     900768, 928692, 957481, 987163, 1017765>>]

\* fetch_from_occupational_outlook: soc_code.startswith raises AttributeError
\* on None.
fetch_from_occupational_outlook(soc_code, job_title) ==
    LET hits == {i \in 1..Len(growth_rates) : StartsWith(soc_code, growth_rates[i].prefix)}
        g    == IF hits = {} THEN DefaultGrowth ELSE growth_rates[Min(hits)]
    IN  IF soc_code = PyNone THEN [raised |-> TRUE] ELSE
        [soc_code           |-> soc_code,
         job_title          |-> job_title,
         projections        |->
             [k \in 1..11 |->
                 IF k = 1
                 THEN [year |-> CurrentYear, employment |-> g.employment[1],
                       growth_rate |-> 0]
                 ELSE [year |-> CurrentYear + k - 1, employment |-> g.employment[k],
                       growth_rate |-> g.rate,
                       change |-> g.employment[k] - g.employment[k - 1]]],
         source             |-> "BLS Occupational Outlook Handbook (Estimated)",
         projection_period  |-> <<CurrentYear, CurrentYear + 10>>,
         growth_rate_annual |-> g.rate,
         success            |-> TRUE,
         note               |-> <<"Based on BLS 2024-2034 projections.", soc_code>>]

\* series.get("data", [])
SeriesData(series) == IF "data" \in DOMAIN series THEN series.data ELSE <<>>

\* The items of all series in the order of the two loops, each with the id of
\* its series.
RECURSIVE SeriesItems(_)
SeriesItems(series_list) ==
    IF series_list = <<>> THEN <<>>
    ELSE [k \in 1..Len(SeriesData(Head(series_list))) |->
             [series_id |-> Head(series_list).seriesID,
              item      |-> SeriesData(Head(series_list))[k]]]
         \o SeriesItems(Tail(series_list))

\* parse_bls_response raises: int(item.get("year")) on an item without a year.
ParseRaises(series_list) ==
    \E k \in 1..Len(SeriesItems(series_list)) :
        "year" \notin DOMAIN SeriesItems(series_list)[k].item

\* The entry of a year with the value of a series: employment for a series id
\* that holds "01", change for one that holds "03".
WithValue(proj, series_id, value) ==
    IF Contains(series_id, <<"0", "1">>) THEN DictSet(proj, "employment", value * 1000)
    ELSE IF Contains(series_id, <<"0", "3">>) THEN DictSet(proj, "change", value * 1000)
    ELSE proj

\* The list projections after the loops over the given items.
RECURSIVE Merged(_, _)
Merged(projections, items) ==
    IF items = <<>> THEN projections
    ELSE LET series_id == Head(items).series_id
             year      == Head(items).item.year
             value     == IF "value" \in DOMAIN Head(items).item
                          THEN Head(items).item.value ELSE 0
             existing  == {i \in 1..Len(projections) : projections[i].year = year}
         IN  Merged(IF existing # {}
                    THEN [projections EXCEPT
                             ![Min(existing)] = WithValue(@, series_id, value)]
                    ELSE Append(projections,
                                WithValue([year |-> year], series_id, value)),
                    Tail(items))

\* round(a / b, 2) in hundredths, for b > 0, given a already times 100.
RoundDiv(a, b) == (2 * a + b) \div (2 * b)

\* "Calculate growth rates"
WithGrowthRates(projections) ==
    [i \in 1..Len(projections) |->
        IF /\ i > 1
           /\ "employment" \in DOMAIN projections[i]
           /\ "employment" \in DOMAIN projections[i - 1]
           /\ projections[i - 1].employment > 0
        THEN DictSet(projections[i], "growth_rate",
                     RoundDiv((projections[i].employment
                                  - projections[i - 1].employment) * 10000,
                              projections[i - 1].employment))
        ELSE projections[i]]

\* parse_bls_response, when it does not raise.
parse_bls_response(series_list, soc_code, job_title) ==
    LET projections ==
            WithGrowthRates(SortSeq(Merged(<<>>, SeriesItems(series_list)),
                                    LAMBDA a, b : a.year < b.year))
    IN  [soc_code          |-> soc_code,
         job_title         |-> job_title,
         projections       |-> projections,
         source            |-> "U.S. Bureau of Labor Statistics",
         projection_period |->
             IF projections # <<>>
             THEN <<projections[1].year, projections[Len(projections)].year>>
             ELSE <<"N/A">>]

\* What the request to the BLS API does: it raises (timeout, HTTP error status,
\* a body that is not JSON), or answers with a status and series.
BlsFailures == {"timeout", "http_error", "bad_json"}

\* fetch_bls_data_v2
fetch_bls_data_v2(api, soc_code, job_title) ==
    IF api.kind \in BlsFailures THEN [success |-> FALSE, error |-> api.kind]
    ELSE IF api.kind # "REQUEST_SUCCEEDED"
    THEN [success |-> FALSE, error |-> "Unknown error"]
    ELSE IF ParseRaises(api.series) THEN [success |-> FALSE, error |-> "TypeError"]
    ELSE DictSet(DictSet(parse_bls_response(api.series, soc_code, job_title),
                         "api_version", "v2"), "success", TRUE)

\* fetch_bls_data_v1
fetch_bls_data_v1(api, soc_code, job_title) ==
    IF api.kind \in BlsFailures THEN [success |-> FALSE, error |-> api.kind]
    ELSE IF api.kind # "REQUEST_SUCCEEDED"
    THEN [success |-> FALSE, error |-> "Unknown error"]
    ELSE IF ParseRaises(api.series) THEN [success |-> FALSE, error |-> "TypeError"]
    ELSE DictSet(DictSet(DictSet(
             parse_bls_response(api.series, soc_code, job_title),
             "api_version", "v1"), "success", TRUE),
             "note", <<"Using v1 API. Register for API key to increase limits.">>)

\* fetch_job_projections; api.key tells whether BLS_API_KEY is set. On None
\* soc_code.replace raises AttributeError before any request, and the handler
\* goes to the fallback.
fetch_job_projections(soc_code, job_title, api) ==
    LET result == IF api.key THEN fetch_bls_data_v2(api, soc_code, job_title)
                  ELSE fetch_bls_data_v1(api, soc_code, job_title)
    IN  IF soc_code = PyNone THEN fetch_from_occupational_outlook(soc_code, job_title)
        ELSE IF result.success THEN result
        ELSE fetch_from_occupational_outlook(soc_code, job_title)

\* The entry of key forecast_<soc_code> in the cache file, as get_cached_skills
\* reads it within its ttl: Absent when the file is missing or is not JSON or
\* has no such entry.
CachedForecast(store) ==
    IF store.state = "json" /\ store.data # None THEN store.data ELSE Absent

\* The same entry after cache_skills_data(cache_key, result): a file that is
\* not JSON is left as it is.
ForecastCached(store, result) ==
    IF store.state = "corrupt" THEN store ELSE [state |-> "json", data |-> result]

\* LongTermForecastAgent.run: what it returns or that it raised, and the cache
\* entry it leaves. The two prints of result['growth_percent'] and
\* result['category'] raise KeyError on a result without these keys.
ForecastRun(soc_code, job_title, api, store) ==
    LET cached == CachedForecast(store)
        result == fetch_job_projections(soc_code, job_title, api)
        with_ttl == DictSet(result, "cache_ttl_seconds", WEEK)
    IN  IF cached # Absent
        THEN [miss |-> FALSE, raised |-> FALSE, value |-> cached, store |-> store]
        ELSE IF "raised" \in DOMAIN result
        THEN [miss |-> TRUE, raised |-> TRUE, value |-> None, store |-> store]
        ELSE IF "error" \in DOMAIN result
        THEN [miss |-> TRUE, raised |-> FALSE, value |-> result, store |-> store]
        ELSE [miss   |-> TRUE,
              raised |-> {"growth_percent", "category"} \ DOMAIN with_ttl # {},
              value  |-> with_ttl,
              store  |-> ForecastCached(store, with_ttl)]

\* The SOC codes asked for: one per sector of growth_rates, one of no sector,
\* and the empty code.
SocCodes ==
    {<<"1", "5", "-", "2", "0", "5", "1">>, <<"1", "3", "-", "1", "1", "1", "1">>, <<"2", "9", "-", "1", "1", "4", "1">>, <<"2", "7", "-", "1", "0", "2", "4">>, <<"1", "1", "-", "3", "0", "2", "1">>, <<"4", "7", "-", "2", "1", "5", "2">>, <<>>}

BlsTitles == {<<>>, common_mappings[1].title}

\* The series a response may hold: employment (01) and employment change (03)
\* with data, without data, without the data key, and with an item that has no
\* year.
SeriesPool ==
    {[seriesID |-> <<"E", "P", "U", "1", "5", "2", "0", "5", "1", "0", "1">>,
      data |-> <<[year |-> CurrentYear - 1, value |-> 200],
                 [year |-> CurrentYear - 2, value |-> 190]>>],
     [seriesID |-> <<"E", "P", "U", "1", "5", "2", "0", "5", "1", "0", "3">>,
      data |-> <<[year |-> CurrentYear - 1, value |-> 10]>>],
     [seriesID |-> <<"E", "P", "U", "1", "5", "2", "0", "5", "1", "0", "1">>, data |-> <<>>],
     [seriesID |-> <<"E", "P", "U", "1", "5", "2", "0", "5", "1", "0", "3">>],
     [seriesID |-> <<"E", "P", "U", "1", "5", "2", "0", "5", "1", "0", "1">>, data |-> <<[value |-> 5]>>]}

MaxSeries == 2

BlsResponses ==
    {[key |-> k, kind |-> f, series |-> <<>>] :
         k \in BOOLEAN, f \in BlsFailures \cup {"REQUEST_NOT_PROCESSED"}}
        \cup {[key |-> k, kind |-> "REQUEST_SUCCEEDED", series |-> s] :
                  k \in BOOLEAN, s \in SeqsUpTo(SeriesPool, MaxSeries)}

\* The number of runs of the forecast agent in a behaviour.
MaxForecastRuns == 2

ForecastInit ==
    /\ bls_soc \in SocCodes
    /\ bls_title \in BlsTitles
    /\ bls_api \in BlsResponses
    /\ bls_result = None
    /\ fc_store \in {[state |-> "missing", data |-> None],
                     [state |-> "corrupt", data |-> None]}
    /\ fc_runs = 0
    /\ fc_result = None

\* One call of fetch_job_projections.
FetchJobProjections ==
    /\ bls_result = None
    /\ bls_result' = fetch_job_projections(bls_soc, bls_title, bls_api)
    /\ UNCHANGED <<bls_soc, bls_title, bls_api, fc_store, fc_runs, fc_result>>

\* One call of fetch_job_projections on the SOC code and the title of the
\* mapping search_occupation returned.
FetchMappedProjections ==
    /\ occ_mapping # None
    /\ bls_result = None
    /\ bls_result' = fetch_job_projections(occ_mapping.soc_code, occ_mapping.official_title,
                                           bls_api)
    /\ UNCHANGED <<bls_soc, bls_title, bls_api, fc_store, fc_runs, fc_result>>

\* One call of LongTermForecastAgent.run.
LongTermForecastRun ==
    /\ fc_runs < MaxForecastRuns
    /\ fc_runs' = fc_runs + 1
    /\ LET run == ForecastRun(bls_soc, bls_title, bls_api, fc_store)
       IN  /\ fc_result' = [miss |-> run.miss, raised |-> run.raised,
                            value |-> run.value]
           /\ fc_store' = run.store
    /\ UNCHANGED <<bls_soc, bls_title, bls_api, bls_result>>

(***************************************************************************)
(* The resume stage (tools/resume_tools.py, agents/resume_extractor.py).   *)
(***************************************************************************)
\* What the model answers with a resume: the upload or the call raises, the
\* text is not JSON, or it is the JSON of an array or of an object, the object
\* with or without a "meta" key.
ResumeAnswers == {"raises", "bad_json", "array", "object", "object_with_meta"}

\* json.loads(response.text) with "meta" added when missing and
\* parsed["meta"]["source_file"] set.
ParsedResume(answer) ==
    [candidate      |-> [name |-> "name", email |-> "email"],
     roles_detected |-> <<>>,
     skills         |-> <<[name |-> SkillName(1)]>>,
     education      |-> <<>>,
     meta           |->
         IF answer = "object_with_meta"
         THEN [parsing_confidence |-> 90, source_file |-> "basename"]
         ELSE [source_file |-> "basename"]]

\* extract_from_pdf: any exception of the try block gives the error dict; an
\* array has no parsed["meta"] to assign to.
extract_from_pdf(file_path, answer) ==
    IF answer \in {"raises", "bad_json", "array"}
    THEN [error |-> answer, source_file |-> "file_path"]
    ELSE ParsedResume(answer)

\* extract_from_text: as extract_from_pdf, after the file was read as UTF-8.
extract_from_text(file_path, answer) ==
    IF ~file_path.utf8 \/ answer \in {"raises", "bad_json", "array"}
    THEN [error |-> IF ~file_path.utf8 THEN "UnicodeDecodeError" ELSE answer,
          source_file |-> "file_path"]
    ELSE ParsedResume(answer)

Pdf  == <<".", "p", "d", "f">>
Txt  == <<".", "t", "x", "t">>
Docx == <<".", "d", "o", "c", "x">>

\* extract_resume
extract_resume(file_path, answer) ==
    LET file_ext == Lower(file_path.suffix)
    IN  IF ~file_path.exists THEN [error |-> "File not found", file_path |-> "file_path"]
        ELSE IF file_ext = Pdf THEN extract_from_pdf(file_path, answer)
        ELSE IF file_ext \in {Txt, Docx} THEN extract_from_text(file_path, answer)
        ELSE [error |-> <<"Unsupported file format: ", file_ext>>,
              supported_formats |-> <<Pdf, Txt, Docx>>]

\* The resume files: present or not, text that is UTF-8 or not, and a suffix.
ResumeFiles ==
    [exists : BOOLEAN, utf8 : BOOLEAN,
     suffix : {Pdf, Upper(Pdf), Txt, Docx, <<".", "d", "o", "c">>, <<>>}]

ResumeInit ==
    /\ resume_file \in ResumeFiles
    /\ resume_answer \in ResumeAnswers
    /\ resume_result = None

\* ResumeExtractorAgent.run storing what it extracted in the file cache.
ResumeExtractorRun_cached ==
    /\ resume_result = None
    /\ resume_result' = extract_resume(resume_file, resume_answer)
    /\ file' = cache_skills_data(file, "k1", [cache_ttl_seconds |-> DAY, member |-> "list"], now)
    /\ UNCHANGED <<resume_file, resume_answer>>
    /\ UNCHANGED <<now, ticks, db, lastSet, ret>>

\* One call of ResumeExtractorAgent.run: it returns what extract_resume returns,
\* with or without "error". Neither function, nor any they call, imports or
\* calls a cache function: the SQLite table, the cache file and the record of
\* the last cache operation stay as they are.
ResumeExtractorRun ==
    /\ resume_result = None
    /\ resume_result' = extract_resume(resume_file, resume_answer)
    /\ UNCHANGED <<resume_file, resume_answer>>
    /\ UNCHANGED <<now, ticks, db, file, lastSet, ret>>

(***************************************************************************)
(* The resource filter (tools/youtube_tools.py, filter_resources).         *)
(***************************************************************************)
\* ---- datetime: the proleptic Gregorian calendar of the standard library.
IsLeap(year) == year % 4 = 0 /\ (year % 100 # 0 \/ year % 400 = 0)

DaysInMonth(year, month) ==
    IF month = 2 THEN (IF IsLeap(year) THEN 29 ELSE 28)
    ELSE IF month \in {4, 6, 9, 11} THEN 30 ELSE 31

RECURSIVE DaysBeforeMonth(_, _)
DaysBeforeMonth(year, month) ==
    IF month = 1 THEN 0
    ELSE DaysBeforeMonth(year, month - 1) + DaysInMonth(year, month - 1)

DaysBeforeYear(year) ==
    (year - 1) * 365 + (year - 1) \div 4 - (year - 1) \div 100 + (year - 1) \div 400

\* date.toordinal(): day 1 is 0001-01-01.
toordinal(date) ==
    DaysBeforeYear(date.year) + DaysBeforeMonth(date.year, date.month) + date.day

Digits == <<"0", "1", "2", "3", "4", "5", "6", "7", "8", "9">>

\* int() of a string of decimal digits.
RECURSIVE DecimalValue(_)
DecimalValue(s) ==
    IF s = <<>> THEN 0
    ELSE 10 * DecimalValue(SubSeq(s, 1, Len(s) - 1))
         + (CHOOSE n \in 0..9 : Digits[n + 1] = s[Len(s)])

\* datetime.strptime(s, "%Y-%m-%d"): midnight of the day written in s.
strptime(s) ==
    [date    |-> [year  |-> DecimalValue(SubSeq(s, 1, 4)),
                  month |-> DecimalValue(SubSeq(s, 6, 7)),
                  day   |-> DecimalValue(SubSeq(s, 9, 10))],
     seconds |-> 0]

\* timedelta(days=365*5)
FiveYearsOfDays == 365 * 5

\* upload_date >= five_years_ago, with five_years_ago = datetime.now() -
\* timedelta(days=365*5): the day moves back, the time of day stays.
Recent(resource, today) ==
    LET upload_date == strptime(resource.upload_date)
    IN  \/ toordinal(upload_date.date) > toordinal(today.date) - FiveYearsOfDays
        \/ /\ toordinal(upload_date.date) = toordinal(today.date) - FiveYearsOfDays
           /\ upload_date.seconds >= today.seconds

\* filter_resources(resources, user_level) called at the time today; user_level
\* is not read.
RECURSIVE filter_resources(_, _)
filter_resources(resources, today) ==
    IF resources = <<>> THEN <<>>
    ELSE LET resource == Head(resources)
             views    == resource.views
             rest     == filter_resources(Tail(resources), today)
         IN  IF Recent(resource, today) /\ views >= 100000 THEN <<resource>> \o rest
             ELSE IF Recent(resource, today) /\ views >= 50000 THEN <<resource>> \o rest
             ELSE rest

\* The clock readings of datetime.now(): two days, at midnight and at noon.
Todays ==
    [date    : {[year |-> 2026, month |-> 11, day |-> 4], [year |-> 2024, month |-> 3, day |-> 1]},
     seconds : {0, 43200}]

\* The upload dates: around five years before each day of Todays, and newer.
UploadDates ==
    {<<"2", "0", "2", "1", "-", "1", "1", "-", "0", "5">>,
     <<"2", "0", "2", "1", "-", "1", "1", "-", "0", "4">>,
     <<"2", "0", "2", "1", "-", "1", "1", "-", "0", "3">>,
     <<"2", "0", "2", "4", "-", "1", "1", "-", "0", "4">>,
     <<"2", "0", "1", "9", "-", "0", "3", "-", "0", "2">>,
     <<"2", "0", "1", "9", "-", "0", "3", "-", "0", "1">>,
     <<"2", "0", "2", "0", "-", "0", "2", "-", "2", "9">>}

ViewCounts == {49999, 50000, 100000, 200000}

ResourcePool == [upload_date : UploadDates, views : ViewCounts]

\* The longest list of candidates handed to filter_resources.
MaxResources == 2

ResourceLists == UNION {[1..n -> ResourcePool] : n \in 0..MaxResources}

FilterInit ==
    /\ yt_now \in Todays
    /\ yt_resources \in ResourceLists
    /\ yt_filtered = None

\* One call of filter_resources.
FilterResources ==
    /\ yt_filtered = None
    /\ yt_filtered' = [list |-> filter_resources(yt_resources, yt_now)]
    /\ UNCHANGED <<yt_now, yt_resources>>

(***************************************************************************)
(* The resource search (tools/youtube_tools.py, search_youtube_resources;  *)
(* agents/youtube_resource_agent.py).                                      *)
(***************************************************************************)
\* list(TRUSTED_CHANNELS.items())[:5]
SearchedChannels == 5

UserLevels == {"Student", "Junior", "Mid", "Senior"}

\* estimate_difficulty(title, user_level)
estimate_difficulty(title, user_level) ==
    LET title_lower == Lower(title)
        any(words) == \E word \in words : Contains(title_lower, word)
    IN  IF any({<<"b", "e", "g", "i", "n", "n", "e", "r">>, <<"i", "n", "t", "r", "o", "d", "u", "c", "t", "i", "o", "n">>, <<"b", "a", "s", "i", "c", "s">>, <<"1", "0", "1">>, <<"c", "r", "a", "s", "h", " ", "c", "o", "u", "r", "s", "e">>})
        THEN "Beginner"
        ELSE IF any({<<"a", "d", "v", "a", "n", "c", "e", "d">>, <<"e", "x", "p", "e", "r", "t">>, <<"m", "a", "s", "t", "e", "r", "y">>, <<"d", "e", "e", "p", " ", "d", "i", "v", "e">>})
        THEN "Advanced"
        ELSE IF any({<<"i", "n", "t", "e", "r", "m", "e", "d", "i", "a", "t", "e">>, <<"b", "e", "y", "o", "n", "d", " ", "b", "a", "s", "i", "c", "s">>})
        THEN "Intermediate"
        ELSE IF user_level \in {"Student", "Junior"} THEN "Beginner"
        ELSE IF user_level = "Mid" THEN "Intermediate"
        ELSE IF user_level = "Senior" THEN "Advanced"
        ELSE "Intermediate"

\* generate_recommendation_reason: the list of reasons that is joined.
generate_recommendation_reason(video_details, user_level) ==
    LET duration == video_details.duration_minutes
        views    == video_details.views
    IN  <<IF duration > 180 THEN "comprehensive deep dive"
          ELSE IF duration > 60 THEN "thorough tutorial"
          ELSE "concise introduction">>
        \o (IF views > 1000000 THEN <<"highly popular">>
            ELSE IF views > 500000 THEN <<"well-received">>
            ELSE <<>>)
        \o <<<<"suitable for", user_level, "level">>>>

\* The loop over data["items"] of one channel: an item without its video id
\* (item["id"]["videoId"]) raises KeyError, which ends the channel with the resources appended so far;
\* an item whose get_video_details is {} is skipped.
RECURSIVE ChannelResources(_, _)
ChannelResources(items, user_level) ==
    IF items = <<>> THEN <<>>
    ELSE LET item == Head(items)
         IN  IF "videoId" \notin DOMAIN item.id THEN <<>>
             ELSE IF item.details = None
             THEN ChannelResources(Tail(items), user_level)
             ELSE <<[title            |-> item.title,
                     url              |-> <<"https://www.youtube.com/watch?v=", item.id.videoId>>,
                     duration_minutes |-> item.details.duration_minutes,
                     difficulty       |-> estimate_difficulty(item.title, user_level),
                     views            |-> item.details.views,
                     upload_date      |-> SubSeq(item.publishedAt, 1, 10),
                     recommendation_reason |->
                         generate_recommendation_reason(item.details, user_level)]>>
                  \o ChannelResources(Tail(items), user_level)

\* resources after the loop over the channels: a request that raises adds
\* nothing.
RECURSIVE Gathered(_, _)
Gathered(api, user_level) ==
    IF api = <<>> THEN <<>>
    ELSE (IF Head(api).kind = "raises" THEN <<>>
          ELSE ChannelResources(Head(api).items, user_level))
         \o Gathered(Tail(api), user_level)

\* sorted(filtered, key=lambda x: x["views"], reverse=True): a stable sort,
\* equal view counts stay in the order of the input.
RECURSIVE InsertByViews(_, _)
InsertByViews(resource, sorted) ==
    IF sorted = <<>> THEN <<resource>>
    ELSE IF Head(sorted).views <= resource.views THEN <<resource>> \o sorted
    ELSE <<Head(sorted)>> \o InsertByViews(resource, Tail(sorted))

RECURSIVE SortedByViews(_)
SortedByViews(resources) ==
    IF resources = <<>> THEN <<>>
    ELSE InsertByViews(Head(resources), SortedByViews(Tail(resources)))

\* search_youtube_resources returning the first max_results of the filtered
\* list without ranking it.
search_youtube_resources_unranked(skill, user_level, max_results, key, api, today) ==
    IF ~key THEN <<[error |-> "YouTube API key not configured", skill |-> skill]>>
    ELSE Take(filter_resources(Gathered(api, user_level), today), max_results)

\* search_youtube_resources(skill, user_level, max_results) with the API key
\* configured or not, the answers api of the channels and the clock at today.
search_youtube_resources(skill, user_level, max_results, key, api, today) ==
    IF ~key THEN <<[error |-> "YouTube API key not configured", skill |-> skill]>>
    ELSE LET resources == Gathered(api, user_level)
             filtered  == filter_resources(resources, today)
         IN  Take(SortedByViews(filtered), max_results)

\* ---- agents/youtube_resource_agent.py
\* get_cached_skills(cache_key, ttl_seconds=604800) on the entries of the run's
\* cache keys.
CachedResources(store, skill) ==
    IF store.state = "json" /\ store.entries[skill] # None
    THEN store.entries[skill] ELSE Absent

\* cache_skills_data(cache_key, result): a file that is not JSON is left as it
\* is.
ResourcesCached(store, skill, result) ==
    IF store.state = "corrupt" THEN store
    ELSE [state |-> "json", entries |-> [store.entries EXCEPT ![skill] = result]]

\* The test of the search result with the look at its first element left out.
ResourcesFound_any(resources) == resources # <<>>

\* if resources and "error" not in resources[0]
ResourcesFound(resources) == resources # <<>> /\ "error" \notin DOMAIN resources[1]

\* The loop of YouTubeResourceAgent.run over the skills it was given, from the
\* results and the cache so far; searched are the skills
\* search_youtube_resources was called for.
RECURSIVE ResourceLoop(_, _, _, _, _, _, _, _)
ResourceLoop(skills, user_level, key, api, today, store, results, searched) ==
    IF skills = <<>>
    THEN [results |-> results, store |-> store, searched |-> searched]
    ELSE LET skill     == Head(skills)
             cached    == CachedResources(store, skill)
             resources == search_youtube_resources(skill, user_level, 3, key, api, today)
             result    == [skill |-> skill, user_level |-> user_level,
                           resources |-> resources, cache_ttl_seconds |-> WEEK]
             found     == ResourcesFound(resources)
             entry     == IF cached # Absent THEN cached
                          ELSE IF found THEN result
                          ELSE [skill |-> skill, user_level |-> user_level,
                                resources |-> <<>>,
                                error |-> "No suitable resources found"]
             stored    == IF cached = Absent /\ found
                          THEN ResourcesCached(store, skill, result) ELSE store
         IN  ResourceLoop(Tail(skills), user_level, key, api, today, stored,
                          DictSet(results, skill, entry),
                          IF cached = Absent THEN searched \cup {skill} ELSE searched)

\* YouTubeResourceAgent.run(missing_skills, user_level)
YouTubeResourceAgentRun(missing_skills, user_level, key, api, today, store) ==
    ResourceLoop(Take(missing_skills, 5), user_level, key, api, today, store, <<>>, {})

\* The videos the channels answer with.
VideoPool ==
    {[id |-> [videoId |-> "v1"], title |-> <<"S", "Q", "L", " ", "B", "a", "s", "i", "c", "s">>, publishedAt |-> <<"2", "0", "2", "4", "-", "1", "1", "-", "0", "4", "T", "1", "0", ":", "0", "0", ":", "0", "0", "Z">>,
      details |-> [duration_minutes |-> 200, views |-> 200000]],
     [id |-> [videoId |-> "v2"], title |-> <<"A", "d", "v", "a", "n", "c", "e", "d", " ", "S", "Q", "L">>, publishedAt |-> <<"2", "0", "2", "1", "-", "1", "1", "-", "0", "6", "T", "1", "0", ":", "0", "0", ":", "0", "0", "Z">>,
      details |-> [duration_minutes |-> 90, views |-> 60000]],
     [id |-> [videoId |-> "v3"], title |-> <<"S", "Q", "L">>, publishedAt |-> <<"2", "0", "2", "4", "-", "1", "1", "-", "0", "4", "T", "1", "0", ":", "0", "0", ":", "0", "0", "Z">>,
      details |-> [duration_minutes |-> 30, views |-> 600000]],
     [id |-> [videoId |-> "v4"], title |-> <<"S", "Q", "L", " ", "B", "a", "s", "i", "c", "s">>, publishedAt |-> <<"2", "0", "1", "9", "-", "0", "3", "-", "0", "1", "T", "1", "0", ":", "0", "0", ":", "0", "0", "Z">>,
      details |-> [duration_minutes |-> 30, views |-> 1200000]],
     [id |-> [videoId |-> "v5"], title |-> <<"S", "Q", "L">>, publishedAt |-> <<"2", "0", "2", "1", "-", "1", "1", "-", "0", "6", "T", "1", "0", ":", "0", "0", ":", "0", "0", "Z">>,
      details |-> [duration_minutes |-> 30, views |-> 40000]],
     [id |-> [videoId |-> "v6"], title |-> <<"A", "d", "v", "a", "n", "c", "e", "d", " ", "S", "Q", "L">>, publishedAt |-> <<"2", "0", "2", "1", "-", "1", "1", "-", "0", "6", "T", "1", "0", ":", "0", "0", ":", "0", "0", "Z">>, details |-> None],
     [id |-> [kind |-> "youtube#channel"], title |-> <<"A", "d", "v", "a", "n", "c", "e", "d", " ", "S", "Q", "L">>, publishedAt |-> <<"2", "0", "2", "1", "-", "1", "1", "-", "0", "6", "T", "1", "0", ":", "0", "0", ":", "0", "0", "Z">>, details |-> None]}

Video(videoId) == CHOOSE v \in VideoPool : v.id = [videoId |-> videoId]
NotAVideo == CHOOSE v \in VideoPool : "videoId" \notin DOMAIN v.id

\* What one channel answers: the request raises, or up to two items
\* ("maxResults": 2).
ChannelAnswers ==
    {[kind |-> "raises", items |-> <<>>],
     [kind |-> "ok", items |-> <<Video("v2"), Video("v1")>>],
     [kind |-> "ok", items |-> <<Video("v6"), Video("v3")>>],
     [kind |-> "ok", items |-> <<Video("v5"), Video("v4")>>],
     [kind |-> "ok", items |-> <<NotAVideo, Video("v1")>>]}

\* The skills a run is asked about: the first n of a list without and of lists
\* with repeated skills.
MaxSkills == 6

MissingSkills ==
    {[i \in 1..n |-> SkillName(order[i])] :
        n \in 0..MaxSkills,
        order \in {[i \in 1..(MaxSkills + 1) |-> i],
                   [i \in 1..(MaxSkills + 1) |-> IF i <= 2 THEN 1 ELSE i - 1],
                   [i \in 1..(MaxSkills + 1) |-> ((i - 1) % 2) + 1]}}

NothingCached == [i \in {SkillName(i) : i \in 1..(MaxSkills + 1)} |-> None]

\* The calls of YouTubeResourceAgent.run in a behaviour.
MaxResourceRuns == 2

\* Either search_youtube_resources on every answer of the channels, or
\* YouTubeResourceAgent.run on every list of skills, user level and state of
\* the cache file, with the channels all answering the same.
SearchInit ==
    /\ yt_key \in BOOLEAN
    /\ yt_found = None
    /\ yt_runs = 0
    /\ yt_results = None
    /\ \/ /\ yt_api \in [1..SearchedChannels -> ChannelAnswers]
          /\ yt_skills = <<SkillName(1)>>
          /\ yt_level = "Junior"
          /\ yt_store = [state |-> "missing", entries |-> NothingCached]
       \/ /\ \E answer \in ChannelAnswers : yt_api = [i \in 1..SearchedChannels |-> answer]
          /\ yt_skills \in MissingSkills
          /\ yt_level \in {"Junior", "Senior"}
          /\ yt_store \in {[state |-> "missing", entries |-> NothingCached],
                           [state |-> "corrupt", entries |-> NothingCached]}

\* One call of search_youtube_resources for the first skill.
SearchYoutubeResources ==
    /\ yt_found = None
    /\ yt_skills # <<>>
    /\ yt_found' = [list |-> search_youtube_resources(yt_skills[1], yt_level, 3,
                                                      yt_key, yt_api, yt_now)]
    /\ UNCHANGED <<yt_key, yt_level, yt_api, yt_skills, yt_store, yt_runs, yt_results>>

\* One call of YouTubeResourceAgent.run.
YouTubeResourceRun ==
    /\ yt_runs < MaxResourceRuns
    /\ LET run == YouTubeResourceAgentRun(yt_skills, yt_level, yt_key, yt_api,
                                          yt_now, yt_store)
       IN  /\ yt_results' = [dict |-> run.results, searched |-> run.searched]
           /\ yt_store' = run.store
    /\ yt_runs' = yt_runs + 1
    /\ UNCHANGED <<yt_key, yt_level, yt_api, yt_skills, yt_found>>

(***************************************************************************)
(* The short-term skills stage (agents/base.py, BaseAgent.run;             *)
(* tools/llm_analysis.py, analyze_skills_with_gemini).                     *)
(***************************************************************************)
\* What the skills model does: the call raises; response.text is None, is not
\* JSON, or is the JSON of an array or of an object, the object without
\* "skills", with "skills": null or with a list of skills.
SkillsAnswerKinds ==
    {"raises", "none", "not_json", "array", "object_without_skills",
     "object_null_skills", "object"}

\* analyze_skills_with_gemini(job_descriptions): response.text, or the text
\* '{"skills": []}' when the call raised.
analyze_skills_with_gemini(answer) ==
    IF answer.kind = "raises" THEN [kind |-> "object", skills |-> <<>>]
    ELSE answer

\* json.loads(skills_json) and skills_data.get("skills", [])[:20]: TypeError
\* on a text that is None, {"skills": []} on a text that is not JSON,
\* AttributeError on an array, TypeError on "skills": null.
TopSkills(skills_json) ==
    IF skills_json.kind \in {"none", "array", "object_null_skills"}
    THEN [raised |-> TRUE]
    ELSE IF skills_json.kind \in {"not_json", "object_without_skills"}
    THEN [raised |-> FALSE, list |-> <<>>]
    ELSE [raised |-> FALSE, list |-> Take(skills_json.skills, 20)]

\* get_cached_skills(role) on the entry of the run's role, read by "if cached".
CachedSkills(store) ==
    IF store.state = "json" /\ store.data # None THEN store.data ELSE Absent

\* cache_skills_data(role, result): a file that is not JSON is left as it is.
SkillsCached(store, result) ==
    IF store.state = "corrupt" THEN store ELSE [state |-> "json", data |-> result]

\* BaseAgent.run(query), with num_jobs descriptions fetched: what it returns or
\* that it raised, the cache entry it leaves, and whether it went past the
\* cache to fetch_job_postings (miss).
BaseAgentRun(query, num_jobs_fetched, answer, store) ==
    LET role       == _extract_role_from_query(query)
        cached     == CachedSkills(store)
        top_skills == TopSkills(analyze_skills_with_gemini(answer))
        result     == [role              |-> role,
                       top_skills        |-> top_skills.list,
                       data_source       |-> <<"Adzuna (90d, ", num_jobs_fetched, " jobs)">>,
                       confidence        |-> _calculate_confidence(num_jobs_fetched),
                       cache_ttl_seconds |-> DAY]
    IN  IF cached # Absent
        THEN [miss |-> FALSE, raised |-> FALSE, value |-> cached, store |-> store]
        ELSE IF num_jobs_fetched = 0
        THEN [miss   |-> TRUE,
              raised |-> FALSE,
              value  |-> [error |-> "No job postings found", role |-> role,
                          confidence |-> [value |-> 0]],
              store  |-> store]
        ELSE IF top_skills.raised
        THEN [miss |-> TRUE, raised |-> TRUE, value |-> None, store |-> store]
        ELSE [miss |-> TRUE, raised |-> FALSE, value |-> result,
              store |-> SkillsCached(store, result)]

\* The longest list of skills the model answers with.
MaxExtracted == 22

\* The skills of an answer: n skills by falling frequency, by rising frequency,
\* or all of one frequency with rising mention counts.
ExtractedSkills(n, order) ==
    [i \in 1..n |->
        IF order = "falling" THEN MarketSkill(i)
        ELSE IF order = "rising" THEN MarketSkill(n + 1 - i)
        ELSE [MarketSkill(i) EXCEPT !.frequency = 50, !.mention_count = i]]

SkillsAnswers ==
    {[kind |-> k, skills |-> <<>>] : k \in SkillsAnswerKinds \ {"object"}}
        \cup {[kind |-> "object", skills |-> ExtractedSkills(n, order)] :
                 n \in 0..MaxExtracted, order \in {"falling", "rising", "tied"}}

SkillsQueries == {<<"s", "k", "i", "l", "l", "s", " ", "f", "o", "r", " ", "d", "a", "t", "a", " ", "a", "n", "a", "l", "y", "s", "t">>, <<"N", "u", "r", "s", "e">>}

\* The calls of BaseAgent.run in a behaviour.
MaxSkillsRuns == 2

SkillsInit ==
    /\ st_query \in SkillsQueries
    /\ st_jobs \in {0, 10, 60, 150}
    /\ st_answer \in SkillsAnswers
    /\ st_store \in {[state |-> "missing", data |-> None],
                     [state |-> "corrupt", data |-> None]}
    /\ st_runs = 0
    /\ st_result = None

\* One call of BaseAgent.run.
ShortTermSkillsRun ==
    /\ st_runs < MaxSkillsRuns
    /\ LET run == BaseAgentRun(st_query, st_jobs, st_answer, st_store)
       IN  /\ st_result' = [miss |-> run.miss, raised |-> run.raised, value |-> run.value]
           /\ st_store' = run.store
    /\ st_runs' = st_runs + 1
    /\ UNCHANGED <<st_query, st_jobs, st_answer>>

(***************************************************************************)
(* The role mapper (agents/role_mapper.py, RoleMapperAgent.run).           *)
(***************************************************************************)
\* get_cached_skills(cache_key, ttl_seconds=604800) on the entry of the run's
\* cache key, read by "if cached".
CachedMapping(store) ==
    IF store.state = "json" /\ store.data # None THEN store.data ELSE Absent

\* cache_skills_data(cache_key, result): a file that is not JSON is left as it
\* is.
MappingCached(store, result) ==
    IF store.state = "corrupt" THEN store ELSE [state |-> "json", data |-> result]

\* RoleMapperAgent.run(job_title): what it returns, the cache entry it leaves,
\* whether it went past the cache to search_occupation (miss) and whether the
\* API was asked (queried).
RoleMapperRun(job_title, response, store) ==
    LET cached == CachedMapping(store)
        result == search_occupation(job_title, response)
    IN  IF cached # Absent
        THEN [miss |-> FALSE, queried |-> FALSE, value |-> cached, store |-> store]
        ELSE [miss    |-> TRUE,
              queried |-> response.kind # "no_credentials",
              value   |-> result,
              store   |-> IF "error" \in DOMAIN result THEN store
                          ELSE MappingCached(store, result)]

\* The calls of RoleMapperAgent.run in a behaviour.
MaxMapperRuns == 2

\* One call of RoleMapperAgent.run on the title, the GET answering occ_api.
RoleMapperAgentRun ==
    /\ rm_runs < MaxMapperRuns
    /\ LET run == RoleMapperRun(occ_query, occ_api, rm_store)
       IN  /\ rm_result' = [miss |-> run.miss, queried |-> run.queried,
                            value |-> run.value]
           /\ rm_store' = run.store
    /\ rm_runs' = rm_runs + 1
    /\ UNCHANGED <<occ_query, occ_api, occ_best, occ_local, occ_mapping>>

(***************************************************************************)
(* Job postings (tools/adzuna_tools.py, fetch_job_postings). A page of the *)
(* source answers a GET by raising (a transport error, or a body that is   *)
(* not JSON), with a status that is not 200, or with status 200 and a list *)
(* of postings. A posting is a dict with a description, which may be       *)
(* empty, or something that is no dict.                                    *)
(***************************************************************************)
\* The for loop over the postings of a page, from the results so far:
\* post.get raises on a posting that is no dict, and the descriptions
\* appended before it stay.
RECURSIVE AppendDescriptions(_, _)
AppendDescriptions(results, postings) ==
    IF postings = <<>> THEN [raised |-> FALSE, results |-> results]
    ELSE IF ~Head(postings).dict THEN [raised |-> TRUE, results |-> results]
    ELSE AppendDescriptions(IF Head(postings).description # <<>>
                            THEN Append(results, Head(postings).description)
                            ELSE results,
                            Tail(postings))

\* The pages of a source and the postings of a page.
MaxPages == 3
MaxPerPage == 2

\* The largest max_results asked for.
MaxWanted == 3

\* The answer to the GET of a page: past the last page of the source, status
\* 200 with no results.
PageAnswer(source, page) ==
    IF page \in DOMAIN source THEN source[page] ELSE [kind |-> "ok", results |-> <<>>]

PostingPool ==
    {[dict |-> TRUE, description |-> <<"a">>],
     [dict |-> TRUE, description |-> <<"b">>],
     [dict |-> TRUE, description |-> <<>>],
     [dict |-> FALSE, description |-> <<>>]}

PageAnswers ==
    {[kind |-> k, results |-> <<>>] : k \in {"raises", "status_500"}}
        \cup {[kind |-> "ok", results |-> l] : l \in SeqsUpTo(PostingPool, MaxPerPage)}

PostingsInit ==
    /\ pg_source \in [1..MaxPages -> PageAnswers]
    /\ pg_max \in 0..MaxWanted
    /\ pg_pc = "start"
    /\ pg_page = 1
    /\ pg_results = <<>>
    /\ pg_requests = 0
    /\ pg_returned = None

\* fetch_job_postings up to the loop: the GET of page 1 with raise_for_status,
\* and its postings. Every exception leads to the return.
FetchFirstPage ==
    /\ pg_pc = "start"
    /\ LET answer == PageAnswer(pg_source, 1)
           added  == AppendDescriptions(pg_results, answer.results)
       IN  IF answer.kind # "ok"
           THEN pg_pc' = "return" /\ UNCHANGED <<pg_results, pg_page>>
           ELSE /\ pg_results' = added.results
                /\ pg_pc' = IF added.raised THEN "return" ELSE "loop"
                /\ pg_page' = IF added.raised THEN pg_page ELSE 2
    /\ pg_requests' = pg_requests + 1
    /\ UNCHANGED <<pg_source, pg_max, pg_returned>>

\* One turn of the while loop: the GET of the next page, break on a status
\* that is not 200 or on no results, else its postings.
FetchNextPage ==
    /\ pg_pc = "loop"
    /\ Len(pg_results) < pg_max
    /\ LET answer == PageAnswer(pg_source, pg_page)
           added  == AppendDescriptions(pg_results, answer.results)
       IN  IF answer.kind # "ok" \/ answer.results = <<>>
           THEN pg_pc' = "return" /\ UNCHANGED <<pg_results, pg_page>>
           ELSE /\ pg_results' = added.results
                /\ pg_pc' = IF added.raised THEN "return" ELSE "loop"
                /\ pg_page' = IF added.raised THEN pg_page ELSE pg_page + 1
    /\ pg_requests' = pg_requests + 1
    /\ UNCHANGED <<pg_source, pg_max, pg_returned>>

\* The end of the loop and return results[:max_results].
ReturnPostings ==
    /\ pg_pc = "return" \/ (pg_pc = "loop" /\ Len(pg_results) >= pg_max)
    /\ pg_returned' = [list |-> Take(pg_results, pg_max)]
    /\ pg_pc' = "done"
    /\ UNCHANGED <<pg_source, pg_max, pg_page, pg_results, pg_requests>>

(***************************************************************************)
(* The states of the components a specification leaves alone.              *)
(***************************************************************************)
IdleCache == CacheInit
IdleConc ==
    /\ wreq = [w \in Writers |-> [impl |-> "db", key |-> "k1",
                                  value |-> [cache_ttl_seconds |-> DAY, member |-> "list"]]]
    /\ wpc = [w \in Writers |-> "done"]
    /\ wbuf = [w \in Writers |-> NoEntries]
IdleKey == query1 = <<>> /\ query2 = <<>> /\ keys = None
IdleConf == num_jobs = 0 /\ confidence = None
IdleInput ==
    /\ resume_skills = <<>>
    /\ short_term_skills = <<>>
    /\ long_term_forecast = [error |-> "no data"]
IdleEval == evaluation = None
IdleAgent == llm = [kind |-> "raises", object |-> None] /\ run_result = None
IdleOcc ==
    /\ occ_query = <<>>
    /\ occ_api = [kind |-> "no_credentials", OccupationList |-> <<>>]
    /\ occ_best = None /\ occ_local = None /\ occ_mapping = None
IdleBls ==
    /\ bls_soc = <<>> /\ bls_title = <<>>
    /\ bls_api = [key |-> FALSE, kind |-> "timeout", series |-> <<>>]
    /\ bls_result = None
    /\ fc_store = [state |-> "missing", data |-> None]
    /\ fc_runs = 0
    /\ fc_result = None
IdleResume ==
    /\ resume_file = [exists |-> FALSE, utf8 |-> FALSE, suffix |-> <<>>]
    /\ resume_answer = "raises"
    /\ resume_result = None
IdleFilter ==
    /\ yt_now = [date |-> [year |-> 2026, month |-> 11, day |-> 4], seconds |-> 0]
    /\ yt_resources = <<>>
    /\ yt_filtered = None
IdleSearch ==
    /\ yt_key = FALSE
    /\ yt_level = "Junior"
    /\ yt_api = <<>>
    /\ yt_skills = <<>>
    /\ yt_found = None
    /\ yt_store = [state |-> "missing", entries |-> NothingCached]
    /\ yt_runs = 0
    /\ yt_results = None
IdleSkills ==
    /\ st_query = <<>>
    /\ st_jobs = 0
    /\ st_answer = [kind |-> "raises", skills |-> <<>>]
    /\ st_store = [state |-> "missing", data |-> None]
    /\ st_runs = 0
    /\ st_result = None
IdleMapper ==
    /\ rm_store = [state |-> "missing", data |-> None]
    /\ rm_runs = 0
    /\ rm_result = None
IdlePostings ==
    /\ pg_source = <<>> /\ pg_max = 0
    /\ pg_pc = "idle" /\ pg_page = 1
    /\ pg_results = <<>> /\ pg_requests = 0
    /\ pg_returned = None
IdleStages ==
    /\ IdleOcc /\ IdleBls /\ IdleResume /\ IdleFilter /\ IdleSearch /\ IdleSkills
    /\ IdleMapper /\ IdlePostings

(***************************************************************************)
(* Spec: the JSON-file cache of tools/cache_tools.py, which every stage    *)
(* uses, its operations called one after another.                          *)
(***************************************************************************)
Init ==
    /\ CacheInit
    /\ IdleConc /\ IdleKey /\ IdleConf /\ IdleInput /\ IdleEval /\ IdleAgent
    /\ IdleStages

Next ==
    \/ Tick /\ UNCHANGED <<concVars, keyVars, confVars, inputVars, evalVars, agentVars, stageVars>>
    \/ CacheSkillsData
           /\ UNCHANGED <<concVars, keyVars, confVars, inputVars, evalVars, agentVars, stageVars>>
    \/ GetCachedSkills
           /\ UNCHANGED <<concVars, keyVars, confVars, inputVars, evalVars, agentVars, stageVars>>

Spec == Init /\ [][Next]_vars

(***************************************************************************)
(* SpecDb: the SQLite cache of tools/cache_db.py.                          *)
(***************************************************************************)
NextDb ==
    \/ Tick /\ UNCHANGED <<concVars, keyVars, confVars, inputVars, evalVars, agentVars, stageVars>>
    \/ SetInCache
           /\ UNCHANGED <<concVars, keyVars, confVars, inputVars, evalVars, agentVars, stageVars>>
    \/ GetFromCache
           /\ UNCHANGED <<concVars, keyVars, confVars, inputVars, evalVars, agentVars, stageVars>>
    \/ ClearCache
           /\ UNCHANGED <<concVars, keyVars, confVars, inputVars, evalVars, agentVars, stageVars>>

SpecDb == Init /\ [][NextDb]_vars

(***************************************************************************)
(* SpecConc: two writers at once, each on the SQLite cache or on the file. *)
(***************************************************************************)
InitConc ==
    /\ ConcInit
    /\ CacheInit
    /\ IdleKey /\ IdleConf /\ IdleInput /\ IdleEval /\ IdleAgent
    /\ IdleStages

NextConc ==
    \E w \in Writers :
        /\ DbWrite(w) \/ FileLoad(w) \/ FileOpen(w) \/ FileDump(w)
        /\ UNCHANGED <<now, ticks, lastSet, ret, stageVars>>
        /\ UNCHANGED <<keyVars, confVars, inputVars, evalVars, agentVars, stageVars>>

SpecConc == InitConc /\ [][NextConc]_vars

(***************************************************************************)
(* SpecKey: the stages' cache keys for every pair of queries.              *)
(***************************************************************************)
InitKey ==
    /\ KeyInit
    /\ IdleCache /\ IdleConc /\ IdleConf /\ IdleInput /\ IdleEval /\ IdleAgent
    /\ IdleStages

NextKey ==
    ComputeKeys
        /\ UNCHANGED <<cacheVars, concVars, confVars, inputVars, evalVars, agentVars, stageVars>>

SpecKey == InitKey /\ [][NextKey]_vars

(***************************************************************************)
(* SpecConf: _calculate_confidence applied to every sample size in range.  *)
(***************************************************************************)
InitConf ==
    /\ ConfInit
    /\ IdleCache /\ IdleConc /\ IdleKey /\ IdleInput /\ IdleEval /\ IdleAgent
    /\ IdleStages

NextConf ==
    CalculateConfidence
        /\ UNCHANGED <<cacheVars, concVars, keyVars, inputVars, evalVars, agentVars, stageVars>>

SpecConf == InitConf /\ [][NextConf]_vars

(***************************************************************************)
(* SpecRules: rules_evaluator applied to every input in range.             *)
(***************************************************************************)
InitRules ==
    /\ RulesInputInit
    /\ evaluation = None
    /\ IdleCache /\ IdleConc /\ IdleKey /\ IdleConf /\ IdleAgent
    /\ IdleStages

NextRules ==
    RulesEvaluate
        /\ UNCHANGED <<cacheVars, concVars, keyVars, confVars, agentVars, stageVars>>

SpecRules == InitRules /\ [][NextRules]_vars

(***************************************************************************)
(* SpecAgent: EvaluatorRecommenderAgent.run on every payload and every     *)
(* behaviour of the model call in range.                                   *)
(***************************************************************************)
InitAgent ==
    /\ AgentInputInit
    /\ run_result = None
    /\ IdleCache /\ IdleConc /\ IdleKey /\ IdleConf /\ IdleEval
    /\ IdleStages

NextAgent ==
    AgentRun
        /\ UNCHANGED <<cacheVars, concVars, keyVars, confVars, evalVars, stageVars>>

SpecAgent == InitAgent /\ [][NextAgent]_vars

(***************************************************************************)
(* SpecOcc: the occupation lookup on every title and every answer of the   *)
(* CareerOneStop request in range.                                         *)
(***************************************************************************)
InitOcc ==
    /\ OccupationInit
    /\ IdleCache /\ IdleConc /\ IdleKey /\ IdleConf /\ IdleInput /\ IdleEval /\ IdleAgent
    /\ IdleBls
    /\ IdleResume
    /\ IdleFilter
    /\ IdleSearch
    /\ IdleSkills
    /\ IdleMapper
    /\ IdlePostings

NextOcc ==
    \/ SelectBestMatch
           /\ UNCHANGED <<cacheVars, concVars, keyVars, confVars, inputVars, evalVars, agentVars, blsVars, resumeVars, filterVars, searchVars, skillsVars, mapperVars, postingVars>>
    \/ FuzzyMatchOccupation
           /\ UNCHANGED <<cacheVars, concVars, keyVars, confVars, inputVars, evalVars, agentVars, blsVars, resumeVars, filterVars, searchVars, skillsVars, mapperVars, postingVars>>
    \/ SearchOccupation
           /\ UNCHANGED <<cacheVars, concVars, keyVars, confVars, inputVars, evalVars, agentVars, blsVars, resumeVars, filterVars, searchVars, skillsVars, mapperVars, postingVars>>

SpecOcc == InitOcc /\ [][NextOcc]_vars

(***************************************************************************)
(* SpecBls: fetch_job_projections and LongTermForecastAgent.run on every   *)
(* SOC code and every answer of the BLS request in range.                  *)
(***************************************************************************)
InitBls ==
    /\ ForecastInit
    /\ IdleCache /\ IdleConc /\ IdleKey /\ IdleConf /\ IdleInput /\ IdleEval /\ IdleAgent
    /\ IdleOcc
    /\ IdleResume
    /\ IdleFilter
    /\ IdleSearch
    /\ IdleSkills
    /\ IdleMapper
    /\ IdlePostings

NextBls ==
    \/ FetchJobProjections
           /\ UNCHANGED <<cacheVars, concVars, keyVars, confVars, inputVars, evalVars, agentVars, occVars, resumeVars, filterVars, searchVars, skillsVars, mapperVars, postingVars>>
    \/ LongTermForecastRun
           /\ UNCHANGED <<cacheVars, concVars, keyVars, confVars, inputVars, evalVars, agentVars, occVars, resumeVars, filterVars, searchVars, skillsVars, mapperVars, postingVars>>

SpecBls == InitBls /\ [][NextBls]_vars

(***************************************************************************)
(* SpecResume: the resume stage run on every file and model answer in      *)
(* range, with the two caches empty or holding an entry.                   *)
(***************************************************************************)
\* The caches when the resume stage starts: empty, or as one cache_skills_data
\* or one set_in_cache call at time 0 leaves them.
CachesBeforeResume ==
    /\ now = 0
    /\ ticks = 0
    /\ \/ CacheInit
       \/ \E role \in Keys, data \in Payloads :
              /\ file = cache_skills_data(FileMissing, role, data, 0)
              /\ db = NoEntries
              /\ lastSet = [NoEntries EXCEPT ![role] =
                               [impl |-> "file", value |-> data, at |-> 0,
                                ttl_seconds |-> data.cache_ttl_seconds]]
              /\ ret = [op |-> "cache_skills_data", key |-> role, value |-> data,
                        ttl_seconds |-> data.cache_ttl_seconds, at |-> 0,
                        result |-> [returned |-> TRUE]]
       \/ \E key \in Keys, value \in Payloads, ttl_seconds \in Ttls :
              /\ db = set_in_cache(NoEntries, key, value, ttl_seconds, 0)
              /\ file = FileMissing
              /\ lastSet = IF Serialisable(value)
                           THEN [NoEntries EXCEPT ![key] =
                                    [impl |-> "db", value |-> value, at |-> 0,
                                     ttl_seconds |-> ttl_seconds]]
                           ELSE NoEntries
              /\ ret = [op |-> "set_in_cache", key |-> key, value |-> value,
                        ttl_seconds |-> ttl_seconds, at |-> 0,
                        result |-> IF Serialisable(value) THEN [returned |-> TRUE]
                                   ELSE [raised |-> TRUE]]

InitResume ==
    /\ ResumeInit
    /\ CachesBeforeResume
    /\ IdleConc /\ IdleKey /\ IdleConf /\ IdleInput /\ IdleEval /\ IdleAgent
    /\ IdleOcc /\ IdleBls
    /\ IdleFilter
    /\ IdleSearch
    /\ IdleSkills
    /\ IdleMapper
    /\ IdlePostings

NextResume ==
    ResumeExtractorRun
        /\ UNCHANGED <<concVars, keyVars, confVars, inputVars, evalVars, agentVars, occVars, blsVars, filterVars, searchVars, skillsVars, mapperVars, postingVars>>

SpecResume == InitResume /\ [][NextResume]_vars

(***************************************************************************)
(* SpecFilter: filter_resources on every list of candidates in range, at   *)
(* every clock reading in range.                                           *)
(***************************************************************************)
InitFilter ==
    /\ FilterInit
    /\ IdleCache /\ IdleConc /\ IdleKey /\ IdleConf /\ IdleInput /\ IdleEval /\ IdleAgent
    /\ IdleOcc /\ IdleBls /\ IdleResume
    /\ IdleSearch
    /\ IdleSkills
    /\ IdleMapper
    /\ IdlePostings

NextFilter ==
    FilterResources
        /\ UNCHANGED <<cacheVars, concVars, keyVars, confVars, inputVars, evalVars, agentVars, occVars, blsVars, resumeVars, searchVars, skillsVars, mapperVars, postingVars>>

SpecFilter == InitFilter /\ [][NextFilter]_vars

(***************************************************************************)
(* SpecSearch: search_youtube_resources and YouTubeResourceAgent.run on    *)
(* every answer of the channels and every list of skills in range.         *)
(***************************************************************************)
InitSearch ==
    /\ SearchInit
    /\ yt_now \in {today \in Todays : today.seconds # 0}
    /\ yt_resources = <<>>
    /\ yt_filtered = None
    /\ IdleCache /\ IdleConc /\ IdleKey /\ IdleConf /\ IdleInput /\ IdleEval /\ IdleAgent
    /\ IdleOcc /\ IdleBls /\ IdleResume
    /\ IdleSkills
    /\ IdleMapper
    /\ IdlePostings

NextSearch ==
    \/ SearchYoutubeResources
           /\ UNCHANGED <<cacheVars, concVars, keyVars, confVars, inputVars, evalVars, agentVars, occVars, blsVars, resumeVars, filterVars, skillsVars, mapperVars, postingVars>>
    \/ YouTubeResourceRun
           /\ UNCHANGED <<cacheVars, concVars, keyVars, confVars, inputVars, evalVars, agentVars, occVars, blsVars, resumeVars, filterVars, skillsVars, mapperVars, postingVars>>

SpecSearch == InitSearch /\ [][NextSearch]_vars

(***************************************************************************)
(* SpecSkills: BaseAgent.run on every query, number of postings and answer *)
(* of the skills model in range.                                           *)
(***************************************************************************)
InitSkills ==
    /\ SkillsInit
    /\ IdleCache /\ IdleConc /\ IdleKey /\ IdleConf /\ IdleInput /\ IdleEval /\ IdleAgent
    /\ IdleOcc /\ IdleBls /\ IdleResume /\ IdleFilter /\ IdleSearch
    /\ IdleMapper
    /\ IdlePostings

NextSkills ==
    ShortTermSkillsRun
        /\ UNCHANGED <<cacheVars, concVars, keyVars, confVars, inputVars, evalVars, agentVars, occVars, blsVars, resumeVars, filterVars, searchVars, mapperVars, postingVars>>

SpecSkills == InitSkills /\ [][NextSkills]_vars

(***************************************************************************)
(* SpecCredentials: search_occupation, search_youtube_resources and        *)
(* YouTubeResourceAgent.run, each with and without its credentials.        *)
(***************************************************************************)
InitCredentials ==
    /\ occ_query \in {c \in OccupationCores : Len(c) <= 8}
    /\ occ_api \in {r \in ApiResponses : Len(r.OccupationList) <= 1}
    /\ occ_best = None /\ occ_local = None /\ occ_mapping = None
    /\ yt_key \in BOOLEAN
    /\ yt_level = "Junior"
    /\ \E answer \in {a \in ChannelAnswers : a.kind = "raises" \/ a.items[1] = Video("v2")} :
           yt_api = [i \in 1..SearchedChannels |-> answer]
    /\ yt_skills \in MissingSkills
    /\ yt_found = None
    /\ yt_store = [state |-> "missing", entries |-> NothingCached]
    /\ yt_runs = 0
    /\ yt_results = None
    /\ yt_now = [date |-> [year |-> 2026, month |-> 11, day |-> 4], seconds |-> 43200]
    /\ yt_resources = <<>>
    /\ yt_filtered = None
    /\ IdleCache /\ IdleConc /\ IdleKey /\ IdleConf /\ IdleInput /\ IdleEval /\ IdleAgent
    /\ IdleBls /\ IdleResume /\ IdleSkills
    /\ IdleMapper
    /\ IdlePostings

NextCredentials ==
    \/ SearchOccupation
           /\ UNCHANGED <<cacheVars, concVars, keyVars, confVars, inputVars, evalVars, agentVars, blsVars, resumeVars, filterVars, searchVars, skillsVars, mapperVars, postingVars>>
    \/ SearchYoutubeResources
           /\ UNCHANGED <<cacheVars, concVars, keyVars, confVars, inputVars, evalVars, agentVars, occVars, blsVars, resumeVars, filterVars, skillsVars, mapperVars, postingVars>>
    \/ YouTubeResourceRun
           /\ UNCHANGED <<cacheVars, concVars, keyVars, confVars, inputVars, evalVars, agentVars, occVars, blsVars, resumeVars, filterVars, skillsVars, mapperVars, postingVars>>

SpecCredentials == InitCredentials /\ [][NextCredentials]_vars

(***************************************************************************)
(* SpecStore: the stages' cache (the file of tools/cache_tools.py) and the *)
(* dashboard's Clear Cache button (clear_cache of tools/cache_db.py).      *)
(***************************************************************************)
NextStore ==
    \/ Tick /\ UNCHANGED <<concVars, keyVars, confVars, inputVars, evalVars, agentVars, stageVars>>
    \/ CacheSkillsData
           /\ UNCHANGED <<concVars, keyVars, confVars, inputVars, evalVars, agentVars, stageVars>>
    \/ GetCachedSkills
           /\ UNCHANGED <<concVars, keyVars, confVars, inputVars, evalVars, agentVars, stageVars>>
    \/ ClearCache
           /\ UNCHANGED <<concVars, keyVars, confVars, inputVars, evalVars, agentVars, stageVars>>

SpecStore == Init /\ [][NextStore]_vars

(***************************************************************************)
(* SpecCaching: the four caching stages, each run up to twice on the same  *)
(* input. The stages share one cache file (.cache/skills_cache.json),      *)
(* which is missing or is not JSON when the behaviour starts.              *)
(***************************************************************************)
InitCaching ==
    /\ \E state \in {"missing", "corrupt"} :
           /\ st_store = [state |-> state, data |-> None]
           /\ rm_store = [state |-> state, data |-> None]
           /\ fc_store = [state |-> state, data |-> None]
           /\ yt_store = [state |-> state, entries |-> NothingCached]
    /\ st_query = <<"N", "u", "r", "s", "e">>
    /\ st_jobs \in {0, 10}
    /\ st_answer \in {a \in SkillsAnswers :
                         a.kind \in {"not_json", "array"}
                             \/ (a.kind = "object" /\ a.skills = ExtractedSkills(2, "falling"))}
    /\ st_runs = 0 /\ st_result = None
    /\ occ_query \in {c \in OccupationCores : Len(c) <= 8}
    /\ occ_api \in {r \in ApiResponses :
                       /\ r.kind \in {"no_credentials", "timeout", "ok"}
                       /\ Len(r.OccupationList) <= 1
                       /\ \A i \in DOMAIN r.OccupationList :
                              r.OccupationList[i] = [OccupationTitle |-> <<"P", "l", "u", "m", "b", "e", "r", "s">>, OnetCode |-> <<"4", "7", "-", "2", "1", "5", "2", ".", "0", "0">>]}
    /\ occ_best = None /\ occ_local = None /\ occ_mapping = None
    /\ rm_runs = 0 /\ rm_result = None
    /\ bls_soc = <<"1", "5", "-", "2", "0", "5", "1">>
    /\ bls_title = common_mappings[1].title
    /\ bls_api = [key |-> TRUE, kind |-> "timeout", series |-> <<>>]
    /\ bls_result = None /\ fc_runs = 0 /\ fc_result = None
    /\ yt_key \in BOOLEAN
    /\ yt_level = "Junior"
    /\ \E answer \in {a \in ChannelAnswers : a.kind = "raises" \/ a.items[1] = Video("v2")} :
           yt_api = [i \in 1..SearchedChannels |-> answer]
    /\ yt_skills = <<SkillName(1), SkillName(2)>>
    /\ yt_found = None /\ yt_runs = 0 /\ yt_results = None
    /\ yt_now = [date |-> [year |-> 2026, month |-> 11, day |-> 4], seconds |-> 43200]
    /\ yt_resources = <<>>
    /\ yt_filtered = None
    /\ IdleCache /\ IdleConc /\ IdleKey /\ IdleConf /\ IdleInput /\ IdleEval /\ IdleAgent
    /\ IdleResume
    /\ IdlePostings

NextCaching ==
    \/ ShortTermSkillsRun
           /\ UNCHANGED <<cacheVars, concVars, keyVars, confVars, inputVars, evalVars, agentVars, occVars, blsVars, resumeVars, filterVars, searchVars, mapperVars, postingVars>>
    \/ RoleMapperAgentRun
           /\ UNCHANGED <<cacheVars, concVars, keyVars, confVars, inputVars, evalVars, agentVars, blsVars, resumeVars, filterVars, searchVars, skillsVars, postingVars>>
    \/ LongTermForecastRun
           /\ UNCHANGED <<cacheVars, concVars, keyVars, confVars, inputVars, evalVars, agentVars, occVars, resumeVars, filterVars, searchVars, skillsVars, mapperVars, postingVars>>
    \/ YouTubeResourceRun
           /\ UNCHANGED <<cacheVars, concVars, keyVars, confVars, inputVars, evalVars, agentVars, occVars, blsVars, resumeVars, filterVars, skillsVars, mapperVars, postingVars>>

SpecCaching == InitCaching /\ [][NextCaching]_vars

(***************************************************************************)
(* SpecPostings: fetch_job_postings on every source of up to MaxPages      *)
(* pages, one step per GET. The call runs on: a step that is enabled is    *)
(* taken.                                                                  *)
(***************************************************************************)
InitPostings ==
    /\ PostingsInit
    /\ IdleCache /\ IdleConc /\ IdleKey /\ IdleConf /\ IdleInput /\ IdleEval /\ IdleAgent
    /\ IdleOcc /\ IdleBls /\ IdleResume /\ IdleFilter /\ IdleSearch /\ IdleSkills
    /\ IdleMapper

NextPostings ==
    \/ FetchFirstPage
           /\ UNCHANGED <<cacheVars, concVars, keyVars, confVars, inputVars, evalVars, agentVars, occVars, blsVars, resumeVars, filterVars, searchVars, skillsVars, mapperVars>>
    \/ FetchNextPage
           /\ UNCHANGED <<cacheVars, concVars, keyVars, confVars, inputVars, evalVars, agentVars, occVars, blsVars, resumeVars, filterVars, searchVars, skillsVars, mapperVars>>
    \/ ReturnPostings
           /\ UNCHANGED <<cacheVars, concVars, keyVars, confVars, inputVars, evalVars, agentVars, occVars, blsVars, resumeVars, filterVars, searchVars, skillsVars, mapperVars>>

SpecPostings == InitPostings /\ [][NextPostings]_vars /\ WF_vars(NextPostings)

(***************************************************************************)
(* SpecLookup: search_occupation on a title, and fetch_job_projections on  *)
(* the SOC code of the mapping it returned.                                *)
(***************************************************************************)
InitLookup ==
    /\ occ_query \in {c \in OccupationCores : Len(c) <= 8}
    /\ occ_api \in {r \in ApiResponses : Len(r.OccupationList) <= 1}
    /\ occ_best = None /\ occ_local = None /\ occ_mapping = None
    /\ bls_soc = <<>> /\ bls_title = <<>>
    /\ bls_api \in {r \in BlsResponses : r.series = <<>>
                                           /\ r.kind \in {"timeout", "REQUEST_SUCCEEDED"}}
    /\ bls_result = None
    /\ fc_store = [state |-> "missing", data |-> None]
    /\ fc_runs = 0 /\ fc_result = None
    /\ IdleCache /\ IdleConc /\ IdleKey /\ IdleConf /\ IdleInput /\ IdleEval /\ IdleAgent
    /\ IdleResume /\ IdleFilter /\ IdleSearch /\ IdleSkills
    /\ IdleMapper /\ IdlePostings

NextLookup ==
    \/ SearchOccupation
           /\ UNCHANGED <<cacheVars, concVars, keyVars, confVars, inputVars, evalVars, agentVars, blsVars, resumeVars, filterVars, searchVars, skillsVars, mapperVars, postingVars>>
    \/ FetchMappedProjections
           /\ UNCHANGED <<cacheVars, concVars, keyVars, confVars, inputVars, evalVars, agentVars, occVars, resumeVars, filterVars, searchVars, skillsVars, mapperVars, postingVars>>

SpecLookup == InitLookup /\ [][NextLookup]_vars

(***************************************************************************)
(* Claims.                                                                 *)
(***************************************************************************)
\* The payload a get returns for one that was set: what json.loads reads from
\* what json.dumps wrote.
Stored(v) == json_loads(json_dumps(v))

\* C1: a get returns a payload only while the entry's age is within the ttl
\* stored with the entry when it was set: the row's ttl_seconds in the SQLite
\* cache, the payload's cache_ttl_seconds in the file cache.
C1_GetNeverReturnsExpired ==
    /\ (ret # None /\ ret.op = "get_from_cache" /\ ret.result # Absent) =>
           ret.at - db[ret.key].timestamp <= db[ret.key].ttl_seconds
    /\ (ret # None /\ ret.op = "get_cached_skills" /\ ret.result # Absent) =>
           ret.at - file.entries[ret.key].timestamp
               <= lastSet[ret.key].ttl_seconds

\* The get of a key right now, with the ttl its last set stored.
GetNow(k) ==
    IF lastSet[k].impl = "db" THEN get_from_cache(db, k, now)
    ELSE get_cached_skills(file, k, lastSet[k].ttl_seconds, now)

\* C2: after set(k, v, ttl) of a JSON payload v has returned, get(k) returns v
\* while no more than ttl has elapsed, and absent once more than ttl has.
C2_RoundTrip ==
    \A k \in Keys :
        (lastSet[k] # None /\ IsJson(lastSet[k].value)) =>
            IF now - lastSet[k].at <= lastSet[k].ttl_seconds
            THEN GetNow(k) = lastSet[k].value
            ELSE GetNow(k) = Absent

\* C3: when a set of a payload that can be written has returned, whatever the
\* store held before, the entry of the key holds that payload with the time of
\* the set, and a get at once returns it.
C3_SetOverwrites ==
    /\ (ret # None /\ ret.op = "cache_skills_data" /\ Serialisable(ret.value)
            /\ now = ret.at) =>
           /\ file.state = "json"
           /\ file.entries[ret.key] # None
           /\ file.entries[ret.key].timestamp = ret.at
           /\ \A ttl \in Ttls :
                  get_cached_skills(file, ret.key, ttl, now) = Stored(ret.value)
    /\ (ret # None /\ ret.op = "set_in_cache" /\ Serialisable(ret.value)
            /\ now = ret.at) =>
           /\ db[ret.key] # None
           /\ db[ret.key].timestamp = ret.at
           /\ get_from_cache(db, ret.key, now) = Stored(ret.value)

\* str with every run of spaces collapsed to one space.
RECURSIVE CollapseSpaces(_)
CollapseSpaces(s) ==
    IF Len(s) <= 1 THEN s
    ELSE IF s[1] = " " /\ s[2] = " " THEN CollapseSpaces(Tail(s))
    ELSE <<s[1]>> \o CollapseSpaces(Tail(s))

\* The two queries differ only in letter case or in the amount of whitespace.
SameQuery(q1, q2) == CollapseSpaces(Lower(q1)) = CollapseSpaces(Lower(q2))

\* C4: for two queries that differ only in letter case or in the amount of
\* whitespace, BaseAgent computes the same role (its cache key) and the role
\* mapper the same cache key.
C4_SameKeyForSameQuery ==
    (keys # None /\ SameQuery(query1, query2)) =>
        /\ keys.role1 = keys.role2
        /\ keys.role_map1 = keys.role_map2

\* What a get of writer w's key returns once both writers are done.
Persisted(w) ==
    IF wreq[w].impl = "db" THEN get_from_cache(db, wreq[w].key, now)
    ELSE get_cached_skills(file, wreq[w].key, WEEK, now)

\* C5: when two concurrent writers of the same cache, each with a payload that
\* can be written, are both done, writes to different keys both persist, and
\* writes to one key leave one of the two payloads, whole.
C5_ConcurrentWritesPersist ==
    LET a == wreq[1]
        b == wreq[2]
    IN  (/\ wpc[1] = "done" /\ wpc[2] = "done"
         /\ a.impl = b.impl
         /\ Serialisable(a.value) /\ Serialisable(b.value)) =>
            IF a.key # b.key
            THEN Persisted(1) = Stored(a.value) /\ Persisted(2) = Stored(b.value)
            ELSE Persisted(1) \in {Stored(a.value), Stored(b.value)}

\* C6: the confidence returned for num_jobs follows the four-tier schedule
\* (>= 100: 0.95, 50..99: 0.85, 25..49: 0.70, below 25: 0.50), and no smaller
\* sample size gets a larger confidence (the function is non-decreasing).
C6_ConfidenceSchedule ==
    confidence # None =>
        /\ num_jobs >= 100 => confidence.value = 95
        /\ (50 <= num_jobs /\ num_jobs < 100) => confidence.value = 85
        /\ (25 <= num_jobs /\ num_jobs < 50) => confidence.value = 70
        /\ num_jobs < 25 => confidence.value = 50
        /\ \A m \in (0 - MinJobs)..MaxJobs :
               m <= num_jobs => _calculate_confidence(m).value <= confidence.value

\* C6 witness: the schedule has been applied at the boundary 49/50.
C6_Witness == num_jobs = 50 /\ confidence = [value |-> 85]


\* The names the claims compare resume skills by.
ResumeNameSet == {Lower(GetName(resume_skills[i])) : i \in 1..Len(resume_skills)}

\* The gaps are in market-rank order, each is the market skill at its rank, and
\* the ranks that have a gap are exactly those that satisfy Wanted.
GapsAreExactly(Wanted(_)) ==
    LET gaps == evaluation.gap_analysis
    IN  /\ \A j \in 1..Len(gaps) :
               /\ gaps[j].market_rank \in 1..Len(short_term_skills)
               /\ gaps[j].skill = GetName(short_term_skills[gaps[j].market_rank])
        /\ \A j \in 1..(Len(gaps) - 1) : gaps[j].market_rank < gaps[j + 1].market_rank
        /\ \A i \in 1..Len(short_term_skills) :
               Wanted(i) <=> \E j \in 1..Len(gaps) : gaps[j].market_rank = i

\* C7, as claimed: gap_analysis holds, in market-rank order, exactly the skills
\* among the first 20 market skills whose lower-cased name is not a lower-cased
\* resume skill name, each with its 1-based position as market_rank.
C7_GapsAsClaimed ==
    evaluation # None =>
        GapsAreExactly(LAMBDA i :
            /\ i <= 20
            /\ Lower(GetName(short_term_skills[i])) \notin ResumeNameSet)

\* C7, amended: the same of the skills that have a non-empty name; an entry
\* without a name is never a gap, and still counts in the ranks of the others.
C7_GapsOfNamedSkills ==
    evaluation # None =>
        GapsAreExactly(LAMBDA i :
            /\ i <= 20
            /\ GetName(short_term_skills[i]) # <<>>
            /\ Lower(GetName(short_term_skills[i])) \notin ResumeNameSet)

\* C7 witness: a market list longer than 20 with a nameless entry, a resume
\* skill that matches a market skill only when case is ignored, and gaps found.
C7_Witness ==
    /\ evaluation # None
    /\ Len(short_term_skills) > 20
    /\ \E i \in 1..20 : GetName(short_term_skills[i]) = <<>>
    /\ \E r \in 1..Len(resume_skills) : \E i \in 1..20 :
           /\ GetName(resume_skills[r]) # GetName(short_term_skills[i])
           /\ Lower(GetName(resume_skills[r])) = Lower(GetName(short_term_skills[i]))
    /\ Len(evaluation.gap_analysis) = 18

\* C8: the priority of each gap follows from its market rank r and the outlook
\* alone: outlook starting with "high" or containing "future" (case ignored):
\* High for r <= 10, Medium for 11 <= r <= 20, else Low; otherwise outlook
\* starting with "stable": Medium for r <= 10, else Low; any other outlook, or
\* none: Low.
C8_PriorityTable ==
    evaluation # None =>
        \A j \in 1..Len(evaluation.gap_analysis) :
            LET r       == evaluation.gap_analysis[j].market_rank
                p       == evaluation.gap_analysis[j].priority
                given   == "category" \in DOMAIN long_term_forecast
                outlook == IF given THEN Lower(long_term_forecast.category) ELSE <<>>
                growing == given /\ (StartsWith(outlook, High) \/ Contains(outlook, Future))
                steady  == given /\ ~growing /\ StartsWith(outlook, Stable)
            IN  /\ (growing /\ r <= 10) => p = "High"
                /\ (growing /\ 11 <= r /\ r <= 20) => p = "Medium"
                /\ (growing /\ r > 20) => p = "Low"
                /\ (steady /\ r <= 10) => p = "Medium"
                /\ (steady /\ r > 10) => p = "Low"
                /\ (~growing /\ ~steady) => p = "Low"

\* C8 witness: under a growing outlook, a gap of rank 10 is High and one of
\* rank 11 is Medium.
C8_Witness ==
    /\ evaluation # None
    /\ "category" \in DOMAIN long_term_forecast
    /\ StartsWith(Lower(long_term_forecast.category), High)
    /\ \E j \in 1..Len(evaluation.gap_analysis) :
           /\ evaluation.gap_analysis[j].market_rank = 10
           /\ evaluation.gap_analysis[j].priority = "High"
    /\ \E j \in 1..Len(evaluation.gap_analysis) :
           /\ evaluation.gap_analysis[j].market_rank = 11
           /\ evaluation.gap_analysis[j].priority = "Medium"

\* Gap a comes before gap b: High before Medium before Low, then by market rank.
Before(a, b) ==
    \/ a.priority = "High" /\ b.priority # "High"
    \/ a.priority = "Medium" /\ b.priority = "Low"
    \/ a.priority = b.priority /\ a.market_rank < b.market_rank

\* C9: recommended_learning_path has min(5, number of gaps) names, and its j-th
\* name is the skill of the gap that exactly j - 1 gaps come before in the
\* order (priority, market_rank); so it is never longer than 5 and each of its
\* names is a skill of gap_analysis.
C9_LearningPath ==
    evaluation # None =>
        LET gaps == evaluation.gap_analysis
            path == evaluation.recommended_learning_path
        IN  /\ Len(path) <= 5
            /\ Len(path) = IF Len(gaps) < 5 THEN Len(gaps) ELSE 5
            /\ \A j \in 1..Len(path) :
                   \E i \in 1..Len(gaps) :
                       /\ gaps[i].skill = path[j]
                       /\ Cardinality({k \in 1..Len(gaps) : Before(gaps[k], gaps[i])})
                              = j - 1

\* C9 witness: more than five gaps, of which five are recommended.
C9_Witness ==
    /\ evaluation # None
    /\ Len(evaluation.gap_analysis) > 5
    /\ Len(evaluation.recommended_learning_path) = 5

\* The model call failed: it raised, its text held no JSON, or the JSON object
\* has neither the evaluator's keys nor the ones the prompt asks for.
LlmFailed ==
    \/ llm.kind \in {"raises", "no_braces", "bad_json"}
    \/ /\ llm.kind = "object"
       /\ {"gap_analysis", "critical_gaps"} \cap DOMAIN llm.object = {}

\* C10: whenever the model call failed, run returns what rules_evaluator
\* returns for the same resume skills, market skills and forecast.
C10_RulesEngineOnFailure ==
    (run_result # None /\ LlmFailed) =>
        run_result = rules_evaluator(resume_skills, short_term_skills, long_term_forecast)

\* The keys of the rules engine's result.
CanonicalKeys ==
    {"role_outlook", "gap_analysis", "recommended_learning_path",
     "estimated_time_weeks", "confidence"}

\* C11: every result run returns has the shape of the rules engine's result:
\* its five keys, gap items with skill, market_rank, priority and reasoning,
\* and a learning path of at most 5 names.
C11_CanonicalShape ==
    run_result # None =>
        /\ CanonicalKeys \subseteq DOMAIN run_result
        /\ IF CanonicalKeys \subseteq DOMAIN run_result
           THEN /\ \A j \in 1..Len(run_result.gap_analysis) :
                       {"skill", "market_rank", "priority", "reasoning"}
                           \subseteq DOMAIN run_result.gap_analysis[j]
                /\ Len(run_result.recommended_learning_path) <= 5
           ELSE FALSE

\* The result of select_best_match is candidate i with the confidence conf.
IsCandidate(match, occupations, i, conf) ==
    /\ match.title = OccupationTitleOrNone(occupations[i])
    /\ match.code = format_soc_code(OnetCode(occupations[i]))
    /\ match.confidence = conf

\* C12: for a non-empty candidate list, select_best_match returns a candidate
\* whose title equals the query (case ignored) with confidence 1.0 if there is
\* one, wherever it is in the list; else a candidate that hits a priority
\* keyword for the query with confidence 0.9 if there is one; else the first
\* candidate with confidence 0.75.
C12_BestMatchPolicy ==
    (occ_best # None /\ occ_api.OccupationList # <<>>) =>
        LET occupations == occ_api.OccupationList
            query_lower == Lower(occ_query)
            exact == {i \in 1..Len(occupations) :
                         query_lower = Lower(OccupationTitle(occupations[i]))}
            prio  == {i \in 1..Len(occupations) :
                         PriorityHits(query_lower, occupations[i]) # {}}
        IN  IF exact # {}
            THEN \E i \in exact : IsCandidate(occ_best, occupations, i, 100)
            ELSE IF prio # {}
            THEN \E i \in prio : IsCandidate(occ_best, occupations, i, 90)
            ELSE IsCandidate(occ_best, occupations, 1, 75)

\* C13: fuzzy_match_occupation returns the table entry whose key is the
\* lower-cased, trimmed title, with the table's confidence; else an entry whose
\* key contains the title or is contained in it, with the table's confidence
\* less 0.1; else the title as given, no SOC code, confidence 0.3 and the note
\* that recommends manual mapping.
C13_FuzzyMatch ==
    occ_local # None =>
        LET title_lower == Strip(Lower(occ_query))
            exact   == {i \in 1..Len(common_mappings) :
                           common_mappings[i].key = title_lower}
            partial == {i \in 1..Len(common_mappings) :
                           \/ Contains(title_lower, common_mappings[i].key)
                           \/ Contains(common_mappings[i].key, title_lower)}
        IN  IF exact # {}
            THEN \E i \in exact :
                     /\ occ_local.official_title = common_mappings[i].title
                     /\ occ_local.soc_code = common_mappings[i].soc
                     /\ occ_local.confidence = common_mappings[i].confidence
            ELSE IF partial # {}
            THEN \E i \in partial :
                     /\ occ_local.official_title = common_mappings[i].title
                     /\ occ_local.soc_code = common_mappings[i].soc
                     /\ occ_local.confidence = common_mappings[i].confidence - 10
            ELSE /\ occ_local.official_title = occ_query
                 /\ occ_local.soc_code = PyNone
                 /\ occ_local.confidence = 30
                 /\ occ_local.notes = <<"No match found. Manual mapping recommended.">>

\* C13 witness: a title that only holds a table key ("senior data scientist")
\* was matched with the penalty, 0.85 - 0.1.
C13_Witness ==
    /\ occ_local # None
    /\ Strip(Lower(occ_query)) = Senior \o common_mappings[1].key
    /\ occ_local.official_title = common_mappings[1].title
    /\ occ_local.confidence = 75

\* C14: with credentials configured, when the request fails or yields no
\* candidate, search_occupation returns what fuzzy_match_occupation returns for
\* the title, whose source is not "CareerOneStop"; and a result whose source is
\* "CareerOneStop" comes from a non-empty candidate list. (search_occupation
\* is total here: each failure of the request is caught inside it.)
C14_FallbackOnFailure ==
    (occ_mapping # None /\ occ_api.kind # "no_credentials") =>
        /\ (occ_api.kind # "ok" \/ occ_api.OccupationList = <<>>) =>
               /\ occ_mapping = fuzzy_match_occupation(occ_query)
               /\ occ_mapping.data_source # "CareerOneStop"
        /\ occ_mapping.data_source = "CareerOneStop" =>
               (occ_api.kind = "ok" /\ occ_api.OccupationList # <<>>)

\* C14 witness: the request timed out and the title was mapped from the table.
C14_Witness ==
    /\ occ_mapping # None
    /\ occ_api.kind = "timeout"
    /\ occ_mapping.data_source = "Local mapping"
    /\ occ_mapping.official_title = common_mappings[1].title

\* The response holds a usable employment series: the request succeeded, its
\* items can be parsed, and a series of employment levels ("01") has data.
UsableSeries(api) ==
    /\ api.kind = "REQUEST_SUCCEEDED"
    /\ ~ParseRaises(api.series)
    /\ \E i \in 1..Len(api.series) :
           /\ Contains(api.series[i].seriesID, <<"0", "1">>)
           /\ SeriesData(api.series[i]) # <<>>

\* C15: fetch_job_projections returns the estimate of the static table, its
\* source marked "(Estimated)", whenever the response holds no usable
\* employment series, a succeeded response with empty series included; and a
\* result whose source is not the estimate holds a non-empty projection series.
C15_EstimateWhenNoSeries ==
    bls_result # None =>
        /\ ~UsableSeries(bls_api) =>
               bls_result = fetch_from_occupational_outlook(bls_soc, bls_title)
        /\ bls_result.source # "BLS Occupational Outlook Handbook (Estimated)" =>
               bls_result.projections # <<>>

\* C16: on a cache miss LongTermForecastAgent.run does not raise, and the
\* record it returns carries growth_percent and category.
C16_ForecastNeverFatal ==
    (fc_result # None /\ fc_result.miss) =>
        /\ ~fc_result.raised
        /\ {"growth_percent", "category"} \subseteq DOMAIN fc_result.value

\* C17: a call of ResumeExtractorAgent.run / extract_resume, successful or
\* failing, on any file format, leaves the SQLite cache and the file cache as
\* they were and makes no cache lookup (the record of the last cache operation
\* is the one from before the call).
C17_ResumeLeavesCacheAlone ==
    [][resume_result' # resume_result => UNCHANGED <<db, file, lastSet, ret>>]_vars

\* C17 witness: the resume stage returned an extraction with the candidate's
\* data while a cache held an entry.
C17_Witness ==
    /\ resume_result # None
    /\ "candidate" \in DOMAIN resume_result
    /\ \E k \in Keys : file.entries[k] # None \/ db[k] # None

\* The upload is less than five years old at the time today: its fifth
\* anniversary is a later day than today's.
AgeUnderFiveYears(resource, today) ==
    LET upload == strptime(resource.upload_date).date
    IN  \/ upload.year + 5 > today.date.year
        \/ /\ upload.year + 5 = today.date.year
           /\ \/ upload.month > today.date.month
              \/ upload.month = today.date.month /\ upload.day > today.date.day

KeptAsClaimed(resource) ==
    AgeUnderFiveYears(resource, yt_now) /\ resource.views >= 50000

\* C18: filter_resources keeps a candidate if and only if its upload age is
\* under 5 years and it has at least 50,000 views, and returns the kept
\* candidates in the order of the input.
C18_FilterPolicy ==
    yt_filtered # None =>
        yt_filtered.list = SelectSeq(yt_resources, KeptAsClaimed)

\* The candidates of the search that pass the filter.
FilteredCandidates == filter_resources(Gathered(yt_api, yt_level), yt_now)

Members(list) == {list[i] : i \in 1..Len(list)}

\* At most max_results (3) entries, each one a candidate that passed the
\* filter, in non-increasing order of views, and no filtered candidate that was
\* left out has more views than a returned one.
RankedAndLimited(list) ==
    /\ Len(list) <= 3
    /\ \A i \in 1..Len(list) : list[i] \in Members(FilteredCandidates)
    /\ \A i, j \in 1..Len(list) : i < j => list[i].views >= list[j].views
    /\ \A r \in Members(FilteredCandidates) \ Members(list) :
           \A i \in 1..Len(list) : list[i].views >= r.views

\* The result of YouTubeResourceAgent.run has entries for skills among the
\* first five of missing_skills only, and at most five of them.
FirstFiveSkills ==
    yt_results # None =>
        /\ DOMAIN yt_results.dict \subseteq Members(Take(yt_skills, 5))
        /\ Cardinality(DOMAIN yt_results.dict) <= 5

\* C19 as stated: whatever search_youtube_resources returns is at most 3
\* resources that passed the filter, ranked by views, and the run's result
\* covers the first 5 skills only.
C19_AsClaimed ==
    /\ yt_found # None => RankedAndLimited(yt_found.list)
    /\ FirstFiveSkills

\* C19 amended: with the API key configured, search_youtube_resources returns
\* at most 3 resources that passed the filter, in non-increasing order of
\* views, none left out having more views than a returned one; without the key
\* it returns the one error record; the run's result has entries for the first
\* 5 skills only, at most 5.
C19_RankingAndLimits ==
    /\ yt_found # None =>
           IF yt_key THEN RankedAndLimited(yt_found.list)
           ELSE /\ Len(yt_found.list) = 1
                /\ DOMAIN yt_found.list[1] = {"error", "skill"}
    /\ FirstFiveSkills

\* C19 witness: the search returned 3 resources and left a filtered candidate
\* out, and a run given more than 5 skills returned 5 entries.
C19_Witness ==
    /\ yt_found # None
    /\ yt_key
    /\ Len(yt_found.list) = 3
    /\ Members(FilteredCandidates) \ Members(yt_found.list) # {}
    /\ yt_results # None
    /\ Len(yt_skills) > 5
    /\ Cardinality(DOMAIN yt_results.dict) = 5

\* C20: the short-term skills stage returns at most 20 skills, ordered by
\* frequency descending with ties broken by mention_count descending, whatever
\* order the model returned them in.
C20_TopTwentyByFrequency ==
    (st_result # None /\ ~st_result.raised /\ "top_skills" \in DOMAIN st_result.value) =>
        LET top_skills == st_result.value.top_skills
        IN  /\ Len(top_skills) <= 20
            /\ \A i, j \in 1..Len(top_skills) :
                   i < j =>
                       \/ top_skills[i].frequency > top_skills[j].frequency
                       \/ /\ top_skills[i].frequency = top_skills[j].frequency
                          /\ top_skills[i].mention_count >= top_skills[j].mention_count

\* The answers of the skills model the stage is to tolerate: the call failed,
\* the text is not JSON, or it is JSON of an unexpected shape.
MalformedAnswers ==
    {"raises", "not_json", "array", "object_null_skills", "object_without_skills"}

\* C21: when the skills model fails or answers with text that is not JSON or
\* with JSON of an unexpected shape, BaseAgent.run does not raise and returns a
\* result whose top_skills is a list.
C21_ToleratesMalformedOutput ==
    (st_result # None /\ st_jobs > 0 /\ st_answer.kind \in MalformedAnswers) =>
        /\ ~st_result.raised
        /\ "top_skills" \in DOMAIN st_result.value

C23_ClearEmptiesTheStagesCache ==
    [][(ret # None /\ ret.op = "clear_cache" /\ ret'.op = "get_cached_skills")
           => ret'.result = Absent]_vars

\* A run of a stage that returned a usable result: it did not raise, and the
\* result is no error record.
SkillsSucceeded(result) ==
    result # None /\ ~result.raised /\ "error" \notin DOMAIN result.value
MappingSucceeded(result) ==
    result # None /\ "error" \notin DOMAIN result.value
ForecastSucceeded(result) ==
    result # None /\ ~result.raised /\ "error" \notin DOMAIN result.value
ResourcesSucceeded(results, skill) ==
    /\ results # None
    /\ skill \in DOMAIN results.dict
    /\ "error" \notin DOMAIN results.dict[skill]

\* A run that finds an entry in the cache returns it without asking the
\* provider and without writing the cache.
ServedFromCache ==
    /\ (st_runs' # st_runs /\ CachedSkills(st_store) # Absent) =>
           /\ st_result'.value = CachedSkills(st_store)
           /\ ~st_result'.miss /\ ~st_result'.raised
           /\ st_store' = st_store
    /\ (rm_runs' # rm_runs /\ CachedMapping(rm_store) # Absent) =>
           /\ rm_result'.value = CachedMapping(rm_store)
           /\ ~rm_result'.miss /\ ~rm_result'.queried
           /\ rm_store' = rm_store
    /\ (fc_runs' # fc_runs /\ CachedForecast(fc_store) # Absent) =>
           /\ fc_result'.value = CachedForecast(fc_store)
           /\ ~fc_result'.miss /\ ~fc_result'.raised
           /\ fc_store' = fc_store
    /\ yt_runs' # yt_runs =>
           \A i \in 1..Len(Take(yt_skills, 5)) :
               CachedResources(yt_store, yt_skills[i]) # Absent =>
                   /\ yt_results'.dict[yt_skills[i]] = CachedResources(yt_store, yt_skills[i])
                   /\ yt_skills[i] \notin yt_results'.searched
                   /\ yt_store'.entries[yt_skills[i]] = yt_store.entries[yt_skills[i]]

\* The run after a successful run returns the same result without a call to
\* the provider.
SecondRunAsksNobody ==
    /\ (st_runs' # st_runs /\ SkillsSucceeded(st_result)) =>
           st_result'.value = st_result.value /\ ~st_result'.miss
    /\ (rm_runs' # rm_runs /\ MappingSucceeded(rm_result)) =>
           rm_result'.value = rm_result.value /\ ~rm_result'.miss
    /\ (fc_runs' # fc_runs /\ ForecastSucceeded(fc_result)) =>
           fc_result'.value = fc_result.value /\ ~fc_result'.miss
    /\ yt_runs' # yt_runs =>
           \A i \in 1..Len(Take(yt_skills, 5)) :
               ResourcesSucceeded(yt_results, yt_skills[i]) =>
                   /\ yt_results'.dict[yt_skills[i]] = yt_results.dict[yt_skills[i]]
                   /\ yt_skills[i] \notin yt_results'.searched

\* C24: a stage that finds a non-expired entry for its key returns exactly the
\* cached payload, calls no provider and writes nothing; and of two successive
\* successful runs on the same input the second returns the result of the
\* first without a provider call.
C24_CachingAroundEachStage == [][ServedFromCache /\ SecondRunAsksNobody]_vars

\* The first half of C24 alone.
C24_ServedFromCache == [][ServedFromCache]_vars

\* The non-empty descriptions of a list of postings, in their order.
RECURSIVE Described(_)
Described(postings) ==
    IF postings = <<>> THEN <<>>
    ELSE IF Head(postings).description # <<>>
    THEN <<Head(postings).description>> \o Described(Tail(postings))
    ELSE Described(Tail(postings))

\* The non-empty descriptions of pages 1..n of the source, in fetch order.
RECURSIVE FetchOrder(_)
FetchOrder(n) ==
    IF n = 0 THEN <<>> ELSE FetchOrder(n - 1) \o Described(PageAnswer(pg_source, n).results)

\* The returned list: at most max_results descriptions, none empty, a prefix
\* of the descriptions of the source in fetch order.
ReturnedAsClaimed ==
    pg_returned # None =>
        /\ Len(pg_returned.list) <= pg_max
        /\ \A i \in DOMAIN pg_returned.list : pg_returned.list[i] # <<>>
        /\ pg_returned.list = Take(FetchOrder(MaxPages), Len(pg_returned.list))

\* A further page is requested only while fewer than max_results descriptions
\* are collected.
FurtherPageOnlyWhileShort ==
    (pg_requests >= 1 /\ pg_requests' > pg_requests) => Len(pg_results) < pg_max

\* No page is requested after page first..: every requested page but the last
\* answered 200 with results.
StoppedAtFirstEnd(first) ==
    \A i \in first..(pg_requests - 1) :
        PageAnswer(pg_source, i).kind = "ok" /\ PageAnswer(pg_source, i).results # <<>>

\* A failure on a later page returns all that was collected before it.
LaterFailureKeepsCollected ==
    (pg_returned # None /\ pg_requests >= 2
     /\ PageAnswer(pg_source, pg_requests).kind # "ok") =>
        pg_returned.list = FetchOrder(pg_requests - 1)

\* C25: fetch_job_postings returns at most max_results descriptions, none
\* empty, in fetch order; it requests a further page only while fewer than
\* max_results are collected and stops at the first page that is not 200 or
\* has no results; on a finite source it terminates, and a failure on a later
\* page still returns what was collected.
C25_Pagination ==
    /\ [](ReturnedAsClaimed /\ StoppedAtFirstEnd(1) /\ LaterFailureKeepsCollected)
    /\ [][FurtherPageOnlyWhileShort]_vars
    /\ <>(pg_pc = "done")

\* C25 with the stop at an empty page asked of the pages after the first only.
C25_PaginationAfterFirstPage ==
    /\ [](ReturnedAsClaimed /\ StoppedAtFirstEnd(2) /\ LaterFailureKeepsCollected)
    /\ [][FurtherPageOnlyWhileShort]_vars
    /\ <>(pg_pc = "done")

\* For the outlook of the forecast the priority number never falls from a
\* market rank to the next. It depends on the outlook alone and is asked on the
\* evaluations of an empty resume, which come with every outlook.
PriorityMonotoneInRank ==
    (evaluation # None /\ resume_skills = <<>>) =>
        \A r \in 1..MaxMarket :
            PriorityNumber(PriorityOf(r, evaluation.role_outlook))
                <= PriorityNumber(PriorityOf(r + 1, evaluation.role_outlook))

\* C26: for every outlook the priority number never falls as the market rank
\* grows, so gap_analysis, which is in rank order, is already in the order of
\* the sort by (priority, market_rank), and recommended_learning_path is the
\* skill names of its first min(5, n) entries.
C26_PathIsHeadOfGaps ==
    /\ PriorityMonotoneInRank
    /\ evaluation # None =>
           LET gaps == evaluation.gap_analysis
               path == evaluation.recommended_learning_path
           IN  /\ \A i \in 1..(Len(gaps) - 1) :
                      /\ gaps[i].market_rank < gaps[i + 1].market_rank
                      /\ PriorityNumber(gaps[i].priority)
                             <= PriorityNumber(gaps[i + 1].priority)
               /\ SortedGaps(gaps) = gaps
               /\ path = [j \in 1..(IF Len(gaps) < 5 THEN Len(gaps) ELSE 5) |->
                              gaps[j].skill]

\* C26 witness: more than five gaps of two priorities, and a path of five.
C26_Witness ==
    /\ evaluation # None
    /\ Len(evaluation.gap_analysis) > 5
    /\ \E i, j \in 1..Len(evaluation.gap_analysis) :
           evaluation.gap_analysis[i].priority # evaluation.gap_analysis[j].priority
    /\ Len(evaluation.recommended_learning_path) = 5

\* A run of the role mapper that misses leaves an entry exactly when the lookup
\* result has no "error" key, and the entry is the result.
MappingWrittenIffNoError ==
    (rm_runs' # rm_runs /\ CachedMapping(rm_store) = Absent) =>
        /\ CachedMapping(rm_store') # Absent <=> "error" \notin DOMAIN rm_result'.value
        /\ CachedMapping(rm_store') # Absent => CachedMapping(rm_store') = rm_result'.value

\* The run after one that returned a mapping without error returns the same
\* mapping and does not query the API.
MappingServedLater ==
    (rm_runs' # rm_runs /\ MappingSucceeded(rm_result)) =>
        /\ rm_result'.value = rm_result.value
        /\ ~rm_result'.miss /\ ~rm_result'.queried

\* C27: RoleMapperAgent.run writes a mapping to the cache if and only if the
\* lookup result has no "error" key; a credential-error result is never
\* cached, and a local-fallback or no-match result obtained while the API was
\* failing is cached and returned unchanged by the later runs for the title,
\* without the API being queried again.
C27_MappingCachedIffNoError == [][MappingWrittenIffNoError /\ MappingServedLater]_vars

\* C27 on a cache file that is missing or readable.
C27_OnReadableFile ==
    [][rm_store.state # "corrupt" => (MappingWrittenIffNoError /\ MappingServedLater)]_vars

\* A no-match mapping obtained while the API was failing has been served from
\* the cache by a second run.
C27_NoMatchServed ==
    /\ rm_runs = 2
    /\ occ_api.kind = "timeout"
    /\ ~rm_result.miss
    /\ rm_result.value.soc_code = PyNone
    /\ rm_result.value.confidence = 30

\* C28: for every soc_code search_occupation produces, null included,
\* fetch_job_projections returns a result record, live or estimated, and does
\* not raise.
C28_ForecastLookupTotal ==
    (occ_mapping # None /\ bls_result # None) =>
        /\ "raised" \notin DOMAIN bls_result
        /\ "projections" \in DOMAIN bls_result

\* C28 for the mappings that carry a SOC code.
C28_TotalOnCodes ==
    (occ_mapping # None /\ bls_result # None /\ occ_mapping.soc_code # PyNone) =>
        /\ "raised" \notin DOMAIN bls_result
        /\ "projections" \in DOMAIN bls_result

\* Every entry of the resource cache holds 1 to 3 resources and no error.
CachedEntriesAreFound ==
    \A skill \in DOMAIN yt_store.entries :
        yt_store.entries[skill] # None =>
            LET entry == yt_store.entries[skill]
            IN  /\ "error" \notin DOMAIN entry
                /\ Len(entry.resources) \in 1..3
                /\ \A i \in 1..Len(entry.resources) :
                       "error" \notin DOMAIN entry.resources[i]

\* A run writes the entry of a skill only when the search returned a non-empty
\* list whose first element has no error, and it writes that list.
WrittenOnlyWhenFound ==
    yt_runs' # yt_runs =>
        \A skill \in DOMAIN yt_store.entries :
            yt_store'.entries[skill] # yt_store.entries[skill] =>
                LET resources == search_youtube_resources(skill, yt_level, 3, yt_key,
                                                          yt_api, yt_now)
                IN  /\ resources # <<>>
                    /\ "error" \notin DOMAIN resources[1]
                    /\ skill \in yt_results'.searched
                    /\ yt_store'.entries[skill].resources = resources

\* A skill whose outcome was empty or an error has no entry, and the next run
\* searches for it again.
FailedOutcomeSearchedAgain ==
    (yt_runs' # yt_runs /\ yt_results # None) =>
        \A skill \in DOMAIN yt_results.dict :
            "error" \in DOMAIN yt_results.dict[skill] =>
                /\ CachedResources(yt_store, skill) = Absent
                /\ skill \in yt_results'.searched

\* C29: YouTubeResourceAgent.run writes a skill's entry only when the search
\* returned a non-empty list whose first element has no error; every cached
\* entry has 1 to 3 resources and no error field; an empty or error outcome is
\* never cached, and the next run for the skill searches again.
C29_OnlyFoundResourcesCached ==
    /\ []CachedEntriesAreFound
    /\ [][WrittenOnlyWhenFound /\ FailedOutcomeSearchedAgain]_vars

\* C29 witness: after two runs a skill has an entry of the resources found, and
\* the second run searched for nothing.
C29_Witness ==
    /\ yt_runs = 2
    /\ \E skill \in DOMAIN yt_store.entries :
           /\ yt_store.entries[skill] # None
           /\ Len(yt_store.entries[skill].resources) >= 1
    /\ yt_results.searched = {}

\* A run of BaseAgent.run that misses leaves an entry exactly when a job
\* description was fetched, and the entry is the result; on a model that
\* failed or answered with text that is not JSON the result has no skills.
SkillsWrittenIffJobs ==
    (st_runs' # st_runs /\ CachedSkills(st_store) = Absent) =>
        /\ CachedSkills(st_store') # Absent <=> st_jobs > 0
        /\ st_jobs = 0 =>
               /\ ~st_result'.raised
               /\ st_result'.value.error = "No job postings found"
               /\ st_result'.value.confidence = [value |-> 0]
        /\ st_jobs > 0 =>
               /\ ~st_result'.raised
               /\ CachedSkills(st_store') = st_result'.value
               /\ st_answer.kind \in {"raises", "not_json"} =>
                      st_result'.value.top_skills = <<>>

\* The run after one that fetched job descriptions returns the same result
\* without going past the cache.
SkillsServedLater ==
    (st_runs' # st_runs /\ st_result # None /\ st_jobs > 0) =>
        /\ ~st_result'.miss /\ ~st_result'.raised
        /\ ~st_result.raised
        /\ st_result'.value = st_result.value

\* C30: BaseAgent.run writes its result to the cache if and only if at least
\* one job description was fetched; the no-postings error result is never
\* cached, and a result with empty top_skills after a failed model call or an
\* unparsable answer is cached and served to the later runs for the role
\* without the model being called again.
C30_SkillsCachedIffJobs == [][SkillsWrittenIffJobs /\ SkillsServedLater]_vars

\* C30 on a cache file that is missing or readable, for the answers on which
\* the run does not raise.
C30_OnReadableFileAndObjects ==
    [][(st_store.state # "corrupt" /\ ~TopSkills(analyze_skills_with_gemini(st_answer)).raised)
           => (SkillsWrittenIffJobs /\ SkillsServedLater)]_vars

====
